---- MODULE Spec2Model ----
(***************************************************************************)
(* Model of the plan pipeline of izumi-chibi-py: DependencyGraph           *)
(* (distage_py/graph.py), RootsFinder (distage_py/roots.py), Binding       *)
(* (izumi/distage/bindings.py), Injector.plan / Injector.produce           *)
(* (izumi/distage/injector.py) and LocatorImpl.get                         *)
(* (izumi/distage/locator_impl.py).                                        *)
(*                                                                         *)
(* A binding is a record [id, key, btype, deps, tags]: id is its position  *)
(* in the concatenated module list (declaration order), deps the keys its  *)
(* producer's signature asks for, in parameter order, tags its activation  *)
(* tags.  An instance is the sequence of ids of the bindings whose         *)
(* producers built it (one id, or one per element of a set).               *)
(***************************************************************************)
EXTENDS Integers, Sequences, FiniteSets, TLC

\* ---------------------------------------------------------------- bounds
MaxBindings == 3
MaxDeps == 2
MaxRoots == 1

\* ------------------------------------------------------------- universe
PlainKeys == {"A", "B", "C"}
SetKeys == {"S"}
Keys == PlainKeys \cup SetKeys

Axes == {"Mode", "World"}
Tags == {"Prod", "Test", "Real", "Mock"}
Axis(t) == IF t \in {"Prod", "Test"} THEN "Mode" ELSE "World"

NoKey == "-"
NoErr == [kind |-> "none", key |-> NoKey, dependent |-> NoKey, cycle |-> <<>>]
Err(kind, key, dependent, cycle) ==
  [kind |-> kind, key |-> key, dependent |-> dependent, cycle |-> cycle]

Range(s) == {s[i] : i \in 1..Len(s)}

\* sequences over S of length at most n
SeqUpTo(S, n) == UNION {[1..m -> S] : m \in 0..n}

\* getattr(key.target_type, "__origin__", None) is set
IsSetKey(key) == key \in SetKeys

\* ------------------------------------------------------------ Activation
\* An Activation is the set of its chosen values, at most one per axis.
Activations ==
  {a \in SUBSET Tags : \A t, u \in a : Axis(t) = Axis(u) => t = u}

\* Activation.is_compatible_with_tags: a tag contradicts the activation when
\* the activation chose another value on the tag's axis; unset axes never
\* constrain.
is_compatible_with_tags(act, tags) ==
  \A t \in tags : (\E c \in act : Axis(c) = Axis(t)) => t \in act

\* Binding.matches_activation
matches_activation(b, act) ==
  IF b.tags = {} THEN TRUE ELSE is_compatible_with_tags(act, b.tags)

\* ----------------------------------------------------------------- state
VARIABLES
  modules,               \* PlannerInput.modules, concatenated
  activation,            \* PlannerInput.activation
  roots,                 \* PlannerInput.roots
  bindings,              \* DependencyGraph._bindings (dict, insertion order)
  alternative_bindings,  \* DependencyGraph._alternative_bindings
  set_bindings,          \* DependencyGraph._set_bindings
  nodes,                 \* DependencyGraph._nodes (dict, insertion order)
  validated,             \* DependencyGraph._validated
  collected,             \* garbage_collect has run on this graph
  topology,              \* Plan.topology
  instances,             \* the Locator's instance table
  lastGet,               \* outcome of the last Locator.get
  err,                   \* the exception that ended plan() or produce()
  pc,                    \* position in Injector.plan / produce
  locators,              \* the LocatorImpl objects created so far
  heap,                  \* number of objects allocated so far
  lastOp,                \* outcome of the last call on a Locator / resolver
  resolver,              \* a DependencyResolver over the plan's graph
  sum,                   \* operands and result of the last Roots.__add__
  scope,                 \* the lifecycle scope of produce_run
  steps                  \* the graph operations plan() has executed, in order

\* the variables of the plan pipeline
pvars == <<modules, activation, roots, bindings, alternative_bindings,
           set_bindings, nodes, validated, collected, topology, instances,
           lastGet, err, pc>>

\* the variables of the Locators, of the resolver, of Roots composition and
\* of the lifecycle scope
ovars == <<locators, heap, lastOp, resolver, sum, scope>>

lvars == <<ovars, steps>>

vars == <<modules, activation, roots, bindings, alternative_bindings,
          set_bindings, nodes, validated, collected, topology, instances,
          lastGet, err, pc, lvars>>

\* ------------------------------------------------------- dict operations
KeysOf(bs) == {bs[i].key : i \in 1..Len(bs)}

\* dict.get(key): the entry for key, as a sequence of length 0 or 1
Lookup(bs, key) == SelectSeq(bs, LAMBDA b : b.key = key)

\* d[key] = b: an existing key keeps its position, a new one goes last
DictPut(bs, b) ==
  IF b.key \in KeysOf(bs)
  THEN [i \in 1..Len(bs) |-> IF bs[i].key = b.key THEN b ELSE bs[i]]
  ELSE Append(bs, b)

\* DependencyGraph.get_binding
get_binding(bs, key) == Lookup(bs, key)

\* DependencyGraph.get_set_bindings
get_set_bindings(sb, key) == sb[key]

\* DependencyGraph.get_node
get_node(ns, key) == Lookup(ns, key)

\* ------------------------------------------------- DependencyGraph: add
\* mutant: a later binding of a key replaces its alternatives
AltAppend_mut(alts, b) ==
  IF \E i \in 1..Len(alts) : alts[i][1].key = b.key
  THEN [i \in 1..Len(alts) |->
          IF alts[i][1].key = b.key THEN <<b>> ELSE alts[i]]
  ELSE Append(alts, <<b>>)

\* self._alternative_bindings[binding.key].append(binding); the table is a
\* sequence of groups, one per key, in order of the key's first binding
AltAppend(alts, b) ==
  IF \E i \in 1..Len(alts) : alts[i][1].key = b.key
  THEN [i \in 1..Len(alts) |->
          IF alts[i][1].key = b.key THEN Append(alts[i], b) ELSE alts[i]]
  ELSE Append(alts, <<b>>)

\* mutant: only the first binding of a key becomes its entry
AddMain_mut(bs, b) ==
  IF b.key \notin KeysOf(bs) THEN DictPut(bs, b) ELSE bs

\* DependencyGraph.add_binding, the _bindings part: the first binding of a
\* key, and every untagged one, becomes the key's entry
AddMain(bs, b) ==
  IF b.key \notin KeysOf(bs) \/ b.tags = {} THEN DictPut(bs, b) ELSE bs

\* ------------------------------------------- DependencyGraph: selection
\* list.sort(key=len(tags), reverse=True) is stable: an element goes after
\* every element whose tag set is at least as large
InsertDesc(sorted, b) ==
  LET pos == Cardinality({i \in 1..Len(sorted) :
                            Cardinality(sorted[i].tags) >= Cardinality(b.tags)})
  IN SubSeq(sorted, 1, pos) \o <<b>> \o SubSeq(sorted, pos + 1, Len(sorted))

RECURSIVE SortByTagsDesc(_)
SortByTagsDesc(s) ==
  IF s = <<>> THEN <<>>
  ELSE InsertDesc(SortByTagsDesc(SubSeq(s, 1, Len(s) - 1)), s[Len(s)])

\* mutant: the matching bindings are not sorted by specificity
select_best_binding_mut(bs, act) ==
  IF bs = <<>> THEN <<>>
  ELSE IF Len(bs) = 1 THEN <<bs[1]>>
  ELSE
    LET matching_bindings == SelectSeq(bs, LAMBDA b : matches_activation(b, act))
        untagged_bindings == SelectSeq(bs, LAMBDA b : b.tags = {})
    IN IF matching_bindings = <<>>
       THEN (IF untagged_bindings # <<>> THEN <<untagged_bindings[1]>> ELSE <<>>)
       ELSE <<matching_bindings[1]>>

\* DependencyGraph._select_best_binding; None is <<>>, a binding b is <<b>>
select_best_binding(bs, act) ==
  IF bs = <<>> THEN <<>>
  ELSE IF Len(bs) = 1 THEN <<bs[1]>>
  ELSE
    LET matching_bindings == SelectSeq(bs, LAMBDA b : matches_activation(b, act))
        untagged_bindings == SelectSeq(bs, LAMBDA b : b.tags = {})
    IN IF matching_bindings = <<>>
       THEN (IF untagged_bindings # <<>> THEN <<untagged_bindings[1]>> ELSE <<>>)
       ELSE IF Len(matching_bindings) = 1 THEN <<matching_bindings[1]>>
       ELSE <<SortByTagsDesc(matching_bindings)[1]>>

\* DependencyGraph.filter_bindings_by_activation: the new _bindings
RECURSIVE filter_bindings_by_activation(_, _, _)
filter_bindings_by_activation(alts, act, i) ==
  IF i > Len(alts) THEN <<>>
  ELSE select_best_binding(alts[i], act)
         \o filter_bindings_by_activation(alts, act, i + 1)

\* ------------------------------------------ DependencyGraph: validation
\* DependencyGraph._extract_dependencies: the keys of the producer's
\* parameters
extract_dependencies(b) == b.deps

\* DependencyGraph._build_graph: one node per entry of _bindings
build_graph(bs) ==
  [i \in 1..Len(bs) |->
     [key |-> bs[i].key, binding |-> bs[i],
      dependencies |-> extract_dependencies(bs[i])]]

\* mutant: a key that has only set elements counts as missing
MissingPairs_mut(ns, bs, sb) ==
  UNION {{<<i, j>> : j \in {j \in 1..Len(ns[i].dependencies) :
                              ns[i].dependencies[j] \notin KeysOf(bs)}} :
         i \in 1..Len(ns)}

\* the (node index, dependency index) pairs whose key has no binding
MissingPairs(ns, bs, sb) ==
  UNION {{<<i, j>> : j \in {j \in 1..Len(ns[i].dependencies) :
                              /\ ns[i].dependencies[j] \notin KeysOf(bs)
                              /\ sb[ns[i].dependencies[j]] = <<>>}} :
         i \in 1..Len(ns)}

\* DependencyGraph._check_missing_dependencies: the first missing pair in
\* iteration order, as the exception raised, or NoErr
check_missing_dependencies(ns, bs, sb) ==
  LET miss == MissingPairs(ns, bs, sb)
  IN IF miss = {} THEN NoErr
     ELSE LET p == CHOOSE q \in miss :
                     \A r \in miss : q[1] < r[1] \/ (q[1] = r[1] /\ q[2] <= r[2])
          IN Err("MissingBinding", ns[p[1]].dependencies[p[2]], ns[p[1]].key, <<>>)

WHITE == 0
GRAY == 1
BLACK == 2

\* list.index
IndexOf(s, x) == CHOOSE i \in 1..Len(s) : s[i] = x /\ \A j \in 1..(i - 1) : s[j] # x

\* mutant: the whole DFS path is reported, not the part from cycle_start
cycle_of_mut(path, key) == path \o <<key>>

\* cycle_start = path.index(key); cycle = path[cycle_start:] + [key]
cycle_of(path, key) ==
  SubSeq(path, IndexOf(path, key), Len(path)) \o <<key>>

\* the nested dfs of DependencyGraph._check_circular_dependencies; st holds
\* colors, path and the cycle of the CircularDependencyError once raised
RECURSIVE dfs(_, _, _)
RECURSIVE dfs_deps(_, _, _, _)
dfs(ns, key, st) ==
  IF st.colors[key] = GRAY
  THEN [st EXCEPT !.raised = TRUE, !.cycle = cycle_of(st.path, key)]
  ELSE IF st.colors[key] = BLACK THEN st
  ELSE
    LET st1 == [st EXCEPT !.colors[key] = GRAY, !.path = Append(@, key)]
        node == get_node(ns, key)
        st2 == IF node # <<>> THEN dfs_deps(ns, node[1].dependencies, 1, st1)
               ELSE st1
    IN IF st2.raised THEN st2
       ELSE [st2 EXCEPT !.path = SubSeq(@, 1, Len(@) - 1), !.colors[key] = BLACK]

dfs_deps(ns, deps, i, st) ==
  IF i > Len(deps) \/ st.raised THEN st
  ELSE dfs_deps(ns, deps, i + 1,
                IF deps[i] \in KeysOf(ns) THEN dfs(ns, deps[i], st) ELSE st)

RECURSIVE dfs_all(_, _, _)
dfs_all(ns, i, st) ==
  IF i > Len(ns) \/ st.raised THEN st
  ELSE dfs_all(ns, i + 1,
               IF st.colors[ns[i].key] = WHITE
               THEN dfs(ns, ns[i].key, [st EXCEPT !.path = <<>>]) ELSE st)

\* DependencyGraph._check_circular_dependencies
check_circular_dependencies(ns) ==
  LET st == dfs_all(ns, 1, [colors |-> [k \in Keys |-> WHITE], path |-> <<>>,
                            cycle |-> <<>>, raised |-> FALSE])
  IN IF st.raised THEN Err("CircularDependency", NoKey, NoKey, st.cycle)
     ELSE NoErr

\* DependencyGraph.validate after the _validated test: the nodes it builds
\* and the exception it raises, if any
validate(bs, sb) ==
  LET ns == build_graph(bs)
      e1 == check_missing_dependencies(ns, bs, sb)
      e2 == IF e1.kind = "none" THEN check_circular_dependencies(ns) ELSE e1
  IN [nodes |-> ns, err |-> e2]

\* ------------------------------------- DependencyGraph: topological order
\* in_degree[dep_key] += 1 for every dependency of every node that is a node
InDegree(ns) ==
  [k \in Keys |->
     Cardinality(UNION {{<<i, j>> : j \in {j \in 1..Len(ns[i].dependencies) :
                                             ns[i].dependencies[j] = k}} :
                        i \in 1..Len(ns)})
       * (IF k \in KeysOf(ns) THEN 1 ELSE 0)]

\* the inner for loop of the while loop: in_degree[dep_key] -= 1, and the key
\* is queued when it reaches 0
RECURSIVE relax(_, _, _, _)
relax(ns, deps, i, st) ==
  IF i > Len(deps) THEN st
  ELSE IF deps[i] \in KeysOf(ns)
  THEN LET d == st.in_degree[deps[i]] - 1
       IN relax(ns, deps, i + 1,
                [st EXCEPT !.in_degree[deps[i]] = d,
                           !.queue = IF d = 0 THEN Append(@, deps[i]) ELSE @])
  ELSE relax(ns, deps, i + 1, st)

\* while queue: key = queue.popleft(); result.append(key); ...
RECURSIVE kahn(_, _)
kahn(ns, st) ==
  IF st.queue = <<>> THEN st.result
  ELSE LET key == Head(st.queue)
           node == get_node(ns, key)[1]
       IN kahn(ns, relax(ns, node.dependencies, 1,
                         [st EXCEPT !.queue = Tail(@), !.result = Append(@, key)]))

\* DependencyGraph.get_topological_order on a validated graph: the order,
\* or the CircularDependencyError([]) of the length test
topological_order(ns) ==
  LET in_degree == InDegree(ns)
      queue == SelectSeq([i \in 1..Len(ns) |-> ns[i].key],
                         LAMBDA k : in_degree[k] = 0)
      result == kahn(ns, [in_degree |-> in_degree, queue |-> queue,
                          result |-> <<>>])
  IN IF Len(result) # Len(ns)
     THEN [order |-> <<>>, err |-> Err("CircularDependency", NoKey, NoKey, <<>>)]
     ELSE [order |-> result, err |-> NoErr]

\* ------------------------------------------------------------ RootsFinder
\* the while loop of RootsFinder.find_reachable_keys; set.pop() takes any
\* element, and the set it ends with does not depend on which
RECURSIVE reach(_, _, _)
reach(ns, visited, to_visit) ==
  IF to_visit = {} THEN visited
  ELSE LET current_key == CHOOSE k \in to_visit : TRUE
           rest == to_visit \ {current_key}
       IN IF current_key \in visited THEN reach(ns, visited, rest)
          ELSE LET node == get_node(ns, current_key)
                   seen == visited \cup {current_key}
               IN reach(ns, seen,
                        rest \cup (IF node # <<>>
                                   THEN Range(node[1].dependencies) \ seen
                                   ELSE {}))

\* RootsFinder.find_reachable_keys
find_reachable_keys(rs, ns, bs) ==
  IF rs.everything THEN KeysOf(bs) ELSE reach(ns, {}, Range(rs.keys))

\* mutant: set elements do not make a root valid
InvalidRoots_mut(rs, bs, sb) ==
  IF rs.everything THEN <<>>
  ELSE SelectSeq(rs.keys, LAMBDA k : get_binding(bs, k) = <<>>)

\* RootsFinder.validate_roots: the root keys without a binding, in order
InvalidRoots(rs, bs, sb) ==
  IF rs.everything THEN <<>>
  ELSE SelectSeq(rs.keys, LAMBDA k : get_binding(bs, k) = <<>>
                                      /\ get_set_bindings(sb, k) = <<>>)

validate_roots(rs, bs, sb) ==
  IF InvalidRoots(rs, bs, sb) = <<>> THEN NoErr
  ELSE Err("InvalidRoot", InvalidRoots(rs, bs, sb)[1], NoKey, <<>>)

\* mutant: unreachable bindings are kept
gc_bindings_mut(bs, reachable_keys) == bs

\* DependencyGraph.garbage_collect
gc_bindings(bs, reachable_keys) == SelectSeq(bs, LAMBDA b : b.key \in reachable_keys)

gc_set_bindings(sb, reachable_keys) ==
  [k \in Keys |-> IF k \in reachable_keys THEN sb[k] ELSE <<>>]

\* ------------------------------------------------------ Injector.produce
\* An object is a pair <<id of the binding that made it, serial>>: a call
\* of a class or factory makes an object with the next serial of the heap,
\* the value of an instance binding is the one object <<id, 0>>.  An
\* instance is the set of the objects it holds: one for a class, factory or
\* value, one per element for a set.
\* st = [instances, resolving, value, err, hp, acquired, unmet]: the two
\* tables of produce, the value returned, the exception raised ("none" when
\* the call returned), the last serial handed out, the keys of the
\* lifecycle resources acquired so far, in the order of their acquisition,
\* and the pairs <<key, dependency>> such that a producer for key was
\* called while the table had no instance for the dependency.
RECURSIVE resolve_instance(_, _, _, _)
RECURSIVE create_instance(_, _, _, _)
RECURSIVE create_from_binding(_, _, _, _)
RECURSIVE resolve_deps(_, _, _, _, _)
RECURSIVE resolve_set_binding_direct(_, _, _, _, _)

\* the nested resolve_instance of Injector.produce
resolve_instance(bs, sb, key, st) ==
  IF key \in DOMAIN st.instances
  THEN [st EXCEPT !.value = st.instances[key]]
  ELSE IF key \in st.resolving
  THEN [st EXCEPT !.err = Err("CircularResolution", key, NoKey, <<>>)]
  ELSE
    LET st1 == create_instance(bs, sb, key,
                               [st EXCEPT !.resolving = @ \cup {key}])
    IN IF st1.err.kind # "none"
       THEN [st1 EXCEPT !.resolving = @ \ {key}]
       ELSE [st1 EXCEPT !.instances = (key :> st1.value) @@ @,
                        !.resolving = @ \ {key}]

\* Injector._create_instance
create_instance(bs, sb, key, st) ==
  IF IsSetKey(key)
  THEN resolve_set_binding_direct(bs, sb, get_set_bindings(sb, key), 1,
                                  [st EXCEPT !.value = {}])
  ELSE
    LET binding == get_binding(bs, key)
        set_bs == get_set_bindings(sb, key)
    IN IF binding = <<>>
       THEN IF set_bs # <<>>
            THEN resolve_set_binding_direct(bs, sb, set_bs, 1,
                                            [st EXCEPT !.value = {}])
            ELSE [st EXCEPT !.err = Err("NoBindingFound", key, NoKey, <<>>)]
       ELSE create_from_binding(bs, sb, binding[1], st)

\* Injector._resolve_set_binding_direct; st.value is result_set so far
resolve_set_binding_direct(bs, sb, set_bs, i, st) ==
  IF i > Len(set_bs) \/ st.err.kind # "none" THEN st
  ELSE
    LET result_set == st.value
        st1 == create_from_binding(bs, sb, set_bs[i], st)
    IN resolve_set_binding_direct(bs, sb, set_bs, i + 1,
         IF st1.err.kind # "none" THEN st1
         ELSE [st1 EXCEPT !.value = result_set \cup st1.value])

\* A binding made with fromResource(lifecycle): acquire is called like a
\* factory and its release is registered with the Locator.
acquire_resource(b, st) ==
  [st EXCEPT !.value = {<<b.id, st.hp + 1>>}, !.hp = @ + 1,
             !.acquired = Append(@, b.key)]

\* mutant: the object of a class or factory is made once per binding
create_from_binding_mut(bs, sb, b, st) ==
  IF b.btype = "instance" THEN [st EXCEPT !.value = {<<b.id, 0>>}]
  ELSE LET st1 == resolve_deps(bs, sb, b.deps, 1, st)
       IN IF st1.err.kind # "none" THEN st1
          ELSE [st1 EXCEPT !.value = {<<b.id, 1>>}, !.hp = @ + 1]

\* Injector._create_from_binding with _instantiate_class / _call_factory:
\* a value is returned as it is; for a class or factory every parameter
\* is resolved, then the producer is called
create_from_binding(bs, sb, b, st) ==
  IF b.btype = "instance" THEN [st EXCEPT !.value = {<<b.id, 0>>}]
  ELSE LET st1 == resolve_deps(bs, sb, b.deps, 1, st)
           st2 == [st1 EXCEPT !.unmet = @ \cup
                     {<<b.key, d>> : d \in Range(b.deps) \ DOMAIN st1.instances}]
       IN IF st1.err.kind # "none" THEN st1
          ELSE IF b.btype = "resource" THEN acquire_resource(b, st2)
          ELSE [st2 EXCEPT !.value = {<<b.id, st2.hp + 1>>}, !.hp = @ + 1]

\* the for loop of _instantiate_class: kwargs[dep.name] = resolve_fn(dep_key)
resolve_deps(bs, sb, deps, i, st) ==
  IF i > Len(deps) \/ st.err.kind # "none" THEN st
  ELSE resolve_deps(bs, sb, deps, i + 1, resolve_instance(bs, sb, deps[i], st))

\* for binding_key in plan.topology: if binding_key not in instances: ...
RECURSIVE produce_loop(_, _, _, _, _)
produce_loop(bs, sb, topo, i, st) ==
  IF i > Len(topo) \/ st.err.kind # "none" THEN st
  ELSE produce_loop(bs, sb, topo, i + 1,
                    IF topo[i] \in DOMAIN st.instances THEN st
                    ELSE resolve_instance(bs, sb, topo[i], st))

NoInstances == [k \in {} |-> {}]

\* Injector.produce
produce(bs, sb, topo, hp) ==
  produce_loop(bs, sb, topo, 1,
               [instances |-> NoInstances, resolving |-> {}, value |-> {},
                err |-> NoErr, hp |-> hp, acquired |-> <<>>,
                unmet |-> {}])

\* ---------------------------------------------------------- LocatorImpl.get
\* The parent is the empty locator and no key is the logger type, so a key
\* without an instance raises ValueError.
NoGet == [key |-> NoKey, ok |-> FALSE, value |-> {}]

locator_get(inst, key) ==
  IF key \notin DOMAIN inst THEN [key |-> key, ok |-> FALSE, value |-> {}]
  ELSE [key |-> key, ok |-> TRUE, value |-> inst[key]]

\* ---------------------------------------------------------------- actions
Everything == [everything |-> TRUE, keys |-> <<>>]
Target(ks) == [everything |-> FALSE, keys |-> ks]

\* Roots.__add__: "if isinstance(other, EverythingRoots): return other;
\* return Roots(self._keys + other._keys)"; the keys of EverythingRoots
\* are the empty list
roots_add(self, other) ==
  IF other.everything THEN other ELSE Target(self.keys \o other.keys)

\* Roots.is_everything
is_everything(rs) == rs.everything

\* no Roots have been composed yet
NoSum == [left |-> Everything, right |-> Everything, result |-> Everything,
          done |-> FALSE]

\* no call has been made on a Locator yet
NoOp == [op |-> "none", loc |-> 0, key |-> NoKey, ok |-> FALSE, value |-> {}]

\* the outcome of a call op(key) on Locator loc
OpResult(op, loc, key, ok, value) ==
  [op |-> op, loc |-> loc, key |-> key, ok |-> ok, value |-> value]

\* no lifecycle scope has been entered yet
NoScope == [stage |-> "none", acquired |-> <<>>, released |-> <<>>,
            ran |-> FALSE, failed |-> FALSE]

\* no DependencyResolver has been constructed yet
NoResolver == [made |-> FALSE]

Init ==
  /\ modules = <<>>
  /\ activation = {}
  /\ roots = Everything
  /\ bindings = <<>>
  /\ alternative_bindings = <<>>
  /\ set_bindings = [k \in Keys |-> <<>>]
  /\ nodes = <<>>
  /\ validated = FALSE
  /\ collected = FALSE
  /\ topology = <<>>
  /\ instances = NoInstances
  /\ lastGet = NoGet
  /\ err = NoErr
  /\ pc = "add"
  /\ locators = <<>>
  /\ heap = 0
  /\ lastOp = NoOp
  /\ resolver = NoResolver
  /\ sum = NoSum
  /\ scope = NoScope
  /\ steps = <<>>

\* Injector._build_graph, one turn of "for binding in module.bindings:
\* graph.add_binding(binding)"
AddBinding(b) ==
  /\ pc = "add"
  /\ Len(modules) < MaxBindings
  /\ modules' = Append(modules, b)
  /\ IF b.btype = "set_element"
     THEN /\ set_bindings' = [set_bindings EXCEPT ![b.key] = Append(@, b)]
          /\ UNCHANGED <<alternative_bindings, bindings>>
     ELSE /\ alternative_bindings' = AltAppend(alternative_bindings, b)
          /\ bindings' = AddMain(bindings, b)
          /\ UNCHANGED set_bindings
  /\ validated' = FALSE
  /\ UNCHANGED <<activation, roots, nodes, collected, topology, instances,
                 lastGet, err, pc>>
  /\ UNCHANGED lvars

\* Injector._build_graph, "if not input.activation.choices: pass / else:
\* graph.filter_bindings_by_activation(input.activation)"
FilterByActivation(act) ==
  /\ pc = "add"
  /\ activation' = act
  /\ IF act = {}
     THEN UNCHANGED <<bindings, validated>>
     ELSE /\ bindings' = filter_bindings_by_activation(alternative_bindings, act, 1)
          /\ validated' = FALSE
  /\ pc' = "validate"
  /\ UNCHANGED <<modules, roots, alternative_bindings, set_bindings, nodes,
                 collected, topology, instances, lastGet, err>>
  /\ steps' = IF act = {} THEN steps ELSE Append(steps, "filter")
  /\ UNCHANGED ovars

\* Injector._build_graph, "graph.validate()"
Validate ==
  /\ pc = "validate"
  /\ IF validated
     THEN /\ pc' = "roots"
          /\ UNCHANGED <<nodes, validated, err>>
     ELSE LET res == validate(bindings, set_bindings)
          IN /\ nodes' = res.nodes
             /\ err' = res.err
             /\ validated' = (res.err.kind = "none")
             /\ pc' = IF res.err.kind = "none" THEN "roots" ELSE "failed"
  /\ UNCHANGED <<modules, activation, roots, bindings, alternative_bindings,
                 set_bindings, collected, topology, instances, lastGet>>
  /\ steps' = IF validated THEN steps ELSE Append(steps, "validate")
  /\ UNCHANGED ovars

\* Injector._build_graph, "RootsFinder.validate_roots(input.roots, graph)"
ValidateRoots(rs) ==
  /\ pc = "roots"
  /\ roots' = rs
  /\ err' = validate_roots(rs, bindings, set_bindings)
  /\ pc' = IF err'.kind = "none" THEN "gc" ELSE "failed"
  /\ UNCHANGED <<modules, activation, bindings, alternative_bindings,
                 set_bindings, nodes, validated, collected, topology,
                 instances, lastGet>>
  /\ steps' = Append(steps, "roots")
  /\ UNCHANGED ovars

\* Injector._build_graph, "if not input.roots.is_everything(): ...
\* graph.garbage_collect(reachable_keys)"
GarbageCollect ==
  /\ pc = "gc"
  /\ IF roots.everything
     THEN UNCHANGED <<bindings, set_bindings, validated, collected>>
     ELSE LET reachable_keys == find_reachable_keys(roots, nodes, bindings)
          IN /\ bindings' = gc_bindings(bindings, reachable_keys)
             /\ set_bindings' = gc_set_bindings(set_bindings, reachable_keys)
             /\ validated' = FALSE
             /\ collected' = TRUE
  /\ pc' = "topo"
  /\ UNCHANGED <<modules, activation, roots, alternative_bindings, nodes,
                 topology, instances, lastGet, err>>
  /\ steps' = IF roots.everything THEN steps ELSE Append(steps, "gc")
  /\ UNCHANGED ovars

\* Injector.plan, "topology = graph.get_topological_order()", which validates
\* again when garbage_collect has reset _validated
TopologicalOrder ==
  /\ pc = "topo"
  /\ LET res == IF validated THEN [nodes |-> nodes, err |-> NoErr]
                ELSE validate(bindings, set_bindings)
         top == topological_order(res.nodes)
     IN /\ nodes' = res.nodes
        /\ IF res.err.kind # "none"
           THEN /\ err' = res.err
                /\ pc' = "failed"
                /\ steps' = Append(steps, "validate")
                /\ UNCHANGED <<validated, topology>>
           ELSE /\ validated' = TRUE
                /\ err' = top.err
                /\ topology' = top.order
                /\ pc' = IF top.err.kind = "none" THEN "planned" ELSE "failed"
                /\ steps' = (IF validated THEN steps
                             ELSE Append(steps, "validate")) \o <<"topo">>
  /\ UNCHANGED <<modules, activation, roots, bindings, alternative_bindings,
                 set_bindings, collected, instances, lastGet>>
  /\ UNCHANGED ovars

\* Injector.produce
Produce ==
  /\ pc = "planned"
  /\ LET st == produce(bindings, set_bindings, topology, heap)
     IN /\ err' = st.err
        /\ heap' = st.hp
        /\ IF st.err.kind = "none"
           THEN instances' = st.instances /\ pc' = "produced"
           ELSE UNCHANGED instances /\ pc' = "produce_failed"
  /\ UNCHANGED <<modules, activation, roots, bindings, alternative_bindings,
                 set_bindings, nodes, validated, collected, topology, lastGet>>
  /\ UNCHANGED <<locators, lastOp, resolver, sum, scope, steps>>

\* LocatorImpl.get
Get(key) ==
  /\ pc = "produced"
  /\ lastGet' = locator_get(instances, key)
  /\ UNCHANGED <<modules, activation, roots, bindings, alternative_bindings,
                 set_bindings, nodes, validated, collected, topology,
                 instances, err, pc>>
  /\ UNCHANGED lvars

\* ------------------------------------------------ inputs: dependency graphs
\* Untagged bindings with at most MaxEdges dependencies in all: regular
\* bindings first, at most one per key, then set elements.  The plain keys
\* are interchangeable, so they are bound in the order of KeyOrder (any of
\* them may stay unbound); the dependency lists are arbitrary.
MaxEdges == 3

KeyOrder == <<"A", "B", "C">>

RECURSIVE EdgeCount(_)
EdgeCount(ms) == IF ms = <<>> THEN 0 ELSE Len(Head(ms).deps) + EdgeCount(Tail(ms))

DepLists(n) ==
  {d \in SeqUpTo(Keys, n) : \A i, j \in 1..Len(d) : d[i] = d[j] => i = j}

NextKeys ==
  SetKeys \cup
  {KeyOrder[i] : i \in {i \in 1..Len(KeyOrder) :
                          /\ \A k \in SetKeys : set_bindings[k] = <<>>
                          /\ \A j \in i..Len(KeyOrder) :
                               KeyOrder[j] \notin KeysOf(bindings)}}

GraphBindings ==
  {[id |-> Len(modules) + 1, key |-> k,
    btype |-> IF IsSetKey(k) THEN "set_element" ELSE "class",
    deps |-> d, tags |-> {}] :
     k \in NextKeys,
     d \in DepLists(IF MaxEdges - EdgeCount(modules) < MaxDeps
                    THEN MaxEdges - EdgeCount(modules) ELSE MaxDeps)}

\* Roots.everything() and Roots.target(...) of at most MaxRoots keys.  The
\* root keys are collected into a set before the traversal, so they are
\* listed without repetition, in the order of RootOrder.
RootOrder == KeyOrder \o <<"S">>

RootChoices ==
  {Everything} \cup
  {Target(ks) : ks \in {s \in SeqUpTo(Keys, MaxRoots) :
                          \A i, j \in 1..Len(s) :
                             i < j => IndexOf(RootOrder, s[i]) < IndexOf(RootOrder, s[j])}}

AddGraphBinding == \E b \in GraphBindings : AddBinding(b)
FilterGraph == \E act \in {{}} : FilterByActivation(act)
ChooseRoots == \E rs \in RootChoices : ValidateRoots(rs)
GetAny == \E key \in Keys : Get(key)

Next ==
  \/ AddGraphBinding
  \/ FilterGraph
  \/ Validate
  \/ ChooseRoots
  \/ GarbageCollect
  \/ TopologicalOrder
  \/ Produce
  \/ GetAny

Spec == Init /\ [][Next]_vars

\* ------------------------------------------- inputs: tagged alternatives
\* Up to MaxBindings alternatives for one key, each with at most MaxTags
\* activation tags and no dependencies.
MaxTags == 2

SelTags == {"Prod", "Test", "Real"}

SelBindings ==
  {[id |-> Len(modules) + 1, key |-> "A", btype |-> "class", deps |-> <<>>,
    tags |-> t] :
     t \in {t \in SUBSET SelTags : Cardinality(t) <= MaxTags}}

AddSelBinding == \E b \in SelBindings : AddBinding(b)
FilterSel == \E act \in Activations \cap SUBSET SelTags : FilterByActivation(act)
ChooseRootsSel == \E rs \in {Everything, Target(<<"A">>)} : ValidateRoots(rs)
GetSel == Get("A")

NextSel ==
  \/ AddSelBinding
  \/ FilterSel
  \/ Validate
  \/ ChooseRootsSel
  \/ GarbageCollect
  \/ TopologicalOrder
  \/ Produce
  \/ GetSel

SpecSel == Init /\ [][NextSel]_vars

\* ------------------------------------------------------------ LocatorImpl
\* A Locator is a record [plan, instances, parent]: plan is the set of keys
\* the Locator's Plan has a binding for, instances the table DIKey ->
\* instance, parent the index of the parent in locators, 0 for the empty
\* Locator (Locator.empty()).  An object is a pair <<binding id, serial>>;
\* <<0, n>> is an object handed in by the caller, <<0, 0>> a logger made by
\* logging.getLogger.
LoggerKey == "L"

\* DIKey(logging.Logger, "my-logger"): a named logger key
NamedLoggerKey == "N"

LocKeys == {"A", "B", LoggerKey}

LoggerObj == {<<0, 0>>}

\* AutoLoggerManager.should_auto_inject_logger: the unnamed logger key
should_auto_inject_logger(key) == key = LoggerKey

\* Plan.has_binding
has_binding(plan, key) == key \in plan

\* LocatorImpl.has_key_locally; LocatorEmpty.has_key_locally is False
has_key_locally(locs, l, key) ==
  IF l = 0 THEN FALSE ELSE key \in DOMAIN locs[l].instances

\* mutant: only the Locator itself is asked, not its parent chain
has_key_mut(locs, l, key) == has_key_locally(locs, l, key)

\* LocatorImpl.has_key; LocatorEmpty.has_key is False
RECURSIVE has_key(_, _, _)
has_key(locs, l, key) ==
  IF l = 0 THEN FALSE
  ELSE has_key_locally(locs, l, key) \/ has_key(locs, locs[l].parent, key)

\* LocatorImpl.is_empty / LocatorEmpty.is_empty
is_empty(l) == l = 0

\* mutant: the parent chain is asked before the local table
RECURSIVE locator_impl_get_mut(_, _, _)
locator_impl_get_mut(locs, l, key) ==
  IF l = 0 THEN [locs |-> locs, ok |-> FALSE, value |-> {}]
  ELSE IF has_key(locs, locs[l].parent, key)
  THEN locator_impl_get_mut(locs, locs[l].parent, key)
  ELSE IF key \in DOMAIN locs[l].instances
  THEN [locs |-> locs, ok |-> TRUE, value |-> locs[l].instances[key]]
  ELSE IF should_auto_inject_logger(key)
  THEN [locs |-> [locs EXCEPT ![l].instances = (key :> LoggerObj) @@ @],
        ok |-> TRUE, value |-> LoggerObj]
  ELSE [locs |-> locs, ok |-> FALSE, value |-> {}]

\* LocatorImpl.get; LocatorEmpty.get raises ValueError.  The result is
\* [locs, ok, value]: the Locators after the call, whether it returned, and
\* the instance returned.
RECURSIVE locator_impl_get(_, _, _)
locator_impl_get(locs, l, key) ==
  IF l = 0 THEN [locs |-> locs, ok |-> FALSE, value |-> {}]
  ELSE IF key \notin DOMAIN locs[l].instances
  THEN IF has_key(locs, locs[l].parent, key)
       THEN locator_impl_get(locs, locs[l].parent, key)
       ELSE IF should_auto_inject_logger(key)
       THEN [locs |-> [locs EXCEPT ![l].instances = (key :> LoggerObj) @@ @],
             ok |-> TRUE, value |-> LoggerObj]
       ELSE [locs |-> locs, ok |-> FALSE, value |-> {}]
  ELSE [locs |-> locs, ok |-> TRUE, value |-> locs[l].instances[key]]

\* LocatorImpl.find: get, with ValueError turned into None (ok = FALSE)
locator_impl_find(locs, l, key) == locator_impl_get(locs, l, key)

\* LocatorImpl.has; LocatorEmpty.has is False
RECURSIVE locator_impl_has(_, _, _)
locator_impl_has(locs, l, key) ==
  IF l = 0 THEN FALSE
  ELSE IF key \in DOMAIN locs[l].instances THEN TRUE
  ELSE IF has_binding(locs[l].plan, key) THEN TRUE
  ELSE IF should_auto_inject_logger(key) THEN TRUE
  ELSE IF ~is_empty(locs[l].parent)
  THEN locator_impl_has(locs, locs[l].parent, key)
  ELSE FALSE

\* LocatorImpl.is_resolved
locator_impl_is_resolved(locs, l, key) == key \in DOMAIN locs[l].instances

\* LocatorImpl.run, the loop over SignatureIntrospector's dependencies: a
\* parameter is [key, optional]; key = NoKey is a parameter without a type
\* hint.  The result is [locs, ok, args]: the Locators after the loop,
\* whether every get returned, and resolved_args.
RECURSIVE run_args(_, _, _, _)
run_args(locs, l, params, args) ==
  IF params = <<>> THEN [locs |-> locs, ok |-> TRUE, args |-> args]
  ELSE LET dep == Head(params)
       IN IF dep.optional /\ ~locator_impl_has(locs, l, dep.key)
          THEN run_args(locs, l, Tail(params), args)
          ELSE IF dep.key = NoKey
          THEN run_args(locs, l, Tail(params), args)
          ELSE LET res == locator_impl_get(locs, l, dep.key)
               IN IF res.ok
                  THEN run_args(res.locs, l, Tail(params),
                                Append(args, res.value))
                  ELSE [locs |-> res.locs, ok |-> FALSE, args |-> args]

\* func(*resolved_args): the i-th positional argument is received by the
\* i-th parameter; a parameter past the last argument receives nothing ({})
call_positional(params, args) ==
  [i \in 1..Len(params) |-> IF i <= Len(args) THEN args[i] ELSE {}]

\* LocatorImpl.run: [locs, ok, received]; func is invoked exactly when ok
locator_impl_run(locs, l, params) ==
  LET res == run_args(locs, l, params, <<>>)
  IN [locs |-> res.locs, ok |-> res.ok,
      received |-> IF res.ok THEN call_positional(params, res.args) ELSE <<>>]

\* create_locator(plan, instances, parent) / LocatorImpl.create_child:
\* the caller hands in one new object for every key of inst_keys
RECURSIVE NewObjects(_, _)
NewObjects(ks, hp) ==
  IF ks = {} THEN NoInstances
  ELSE LET k == CHOOSE x \in ks : \A y \in ks : IndexOf(<<"A", "B", "L", "N">>, x)
                                                 <= IndexOf(<<"A", "B", "L", "N">>, y)
       IN (k :> {<<0, hp + 1>>}) @@ NewObjects(ks \ {k}, hp + 1)

create_locator(plan, insts, parent) ==
  [plan |-> plan, instances |-> insts, parent |-> parent]

\* locator = create_locator(plan, instances, parent)
CreateLocator(plan, inst_keys, parent) ==
  /\ locators' = Append(locators,
                        create_locator(plan, NewObjects(inst_keys, heap), parent))
  /\ heap' = heap + Cardinality(inst_keys)
  /\ lastOp' = OpResult("create", Len(locators) + 1, NoKey, TRUE, {})
  /\ UNCHANGED <<pvars, resolver, sum, scope, steps>>

\* locator.get(key)
LGet(l, key) ==
  LET res == locator_impl_get(locators, l, key)
  IN /\ locators' = res.locs
     /\ lastOp' = OpResult("get", l, key, res.ok, res.value)
     /\ UNCHANGED <<pvars, heap, resolver, sum, scope, steps>>

\* locator.find(key)
LFind(l, key) ==
  LET res == locator_impl_find(locators, l, key)
  IN /\ locators' = res.locs
     /\ lastOp' = OpResult("find", l, key, res.ok, res.value)
     /\ UNCHANGED <<pvars, heap, resolver, sum, scope, steps>>

\* locator.has(key)
LHas(l, key) ==
  /\ lastOp' = OpResult("has", l, key, locator_impl_has(locators, l, key), {})
  /\ UNCHANGED <<pvars, locators, heap, resolver, sum, scope, steps>>

\* locator.is_resolved(key)
LIsResolved(l, key) ==
  /\ lastOp' = OpResult("is_resolved", l, key,
                        locator_impl_is_resolved(locators, l, key), {})
  /\ UNCHANGED <<pvars, locators, heap, resolver, sum, scope, steps>>

\* ------------------------------------------------------ DependencyResolver
\* resolver = [made, ops, parent, instances, resolving, calls, created,
\* unmet, leaked]: ops is
\* DependencyGraph.get_operations() as a table from the keys that have an
\* operation to the operation's dependencies, parent is parent_locator
\* (NoParent for None), instances and resolving are _instances and
\* _resolving, calls counts, per key, how often operation.execute ran, and
\* unmet holds the pairs <<key, dependency>> such that operation.execute
\* ran for key while neither _instances nor the parent chain had an
\* instance for the dependency, and leaked the keys that had an entry in
\* _instances when their resolve raised.
\* st = [res, locs, hp, ok, value]: the resolver, the Locators and the heap
\* during a call, whether the call returned (every exception raised here is
\* a ValueError) and the value returned.  The operation of FactoryKey is a
\* CreateFactory operation: ops[FactoryKey] lists the parameters of the
\* target type that DI resolves, and created holds the objects that
\* Factory.create has returned.
NoParent == 0 - 1

\* DIKey(Factory[T])
FactoryKey == "F"

\* an object built by operation.execute
Built(hp) == {<<1, hp + 1>>}

RECURSIVE resolver_resolve(_, _)
RECURSIVE resolve_try(_, _)
RECURSIVE resolver_create_instance(_, _)
RECURSIVE execute_operation(_, _)
RECURSIVE resolve_op_deps(_, _, _)

Raised(st) == [st EXCEPT !.ok = FALSE, !.value = {}]

Returned(st, v) == [st EXCEPT !.ok = TRUE, !.value = v]

\* mutant: no look into _instances before creating
resolver_resolve_mut(key, st) ==
  IF key \in st.res.resolving THEN Raised(st)
  ELSE resolve_try(key, [st EXCEPT !.res.resolving = @ \cup {key}])

\* DependencyResolver.resolve
resolver_resolve(key, st) ==
  IF key \in DOMAIN st.res.instances
  THEN Returned(st, st.res.instances[key])
  ELSE IF key \in st.res.resolving THEN Raised(st)
  ELSE resolve_try(key, [st EXCEPT !.res.resolving = @ \cup {key}])

\* mutant: no finally block, a key whose creation raised stays in _resolving
resolve_try_nofinally(key, st) ==
  LET st1 == resolver_create_instance(key, st)
  IN IF st1.ok
     THEN [st1 EXCEPT !.res.instances = (key :> st1.value) @@ @,
                      !.res.resolving = @ \ {key}]
     ELSE st1

\* mutant: the table entry is written in the finally block
resolve_try_mut(key, st) ==
  LET st1 == resolver_create_instance(key, st)
  IN [st1 EXCEPT !.res.instances = (key :> st1.value) @@ @,
                 !.res.resolving = @ \ {key}]

\* the try/finally of DependencyResolver.resolve
resolve_try(key, st) ==
  LET st1 == resolver_create_instance(key, st)
  IN IF st1.ok
     THEN [st1 EXCEPT !.res.instances = (key :> st1.value) @@ @,
                      !.res.resolving = @ \ {key}]
     ELSE [st1 EXCEPT !.res.resolving = @ \ {key},
                      !.res.leaked = @ \cup ({key} \cap DOMAIN st1.res.instances)]

\* DependencyResolver._create_instance
resolver_create_instance(key, st) ==
  IF key \notin DOMAIN st.res.ops
  THEN IF st.res.parent # NoParent
       THEN LET got == locator_impl_get(st.locs, st.res.parent, key)
            IN IF got.ok
               THEN Returned([st EXCEPT !.locs = got.locs], got.value)
               ELSE Raised([st EXCEPT !.locs = got.locs])
       ELSE Raised(st)
  ELSE execute_operation(key, st)

\* DependencyResolver._execute_operation
execute_operation(key, st) ==
  IF key = FactoryKey
  THEN Returned([st EXCEPT !.hp = @ + 1], {<<2, st.hp + 1>>})
  ELSE LET st1 == resolve_op_deps(st.res.ops[key], 1, Returned(st, {}))
           absent == {d \in Range(st.res.ops[key]) :
                        /\ d \notin DOMAIN st1.res.instances
                        /\ \/ st1.res.parent = NoParent
                           \/ ~has_key(st1.locs, st1.res.parent, d)}
       IN IF ~st1.ok THEN st1
          ELSE Returned([st1 EXCEPT !.hp = @ + 1, !.res.calls[key] = @ + 1,
                                    !.res.unmet = @ \cup
                                       {<<key, d>> : d \in absent}],
                        Built(st1.hp))

\* Factory.create, the loop over the parameters that DI resolves: each is
\* resolved with resolve_fn = resolver.resolve; st.value is the list of the
\* values resolved so far
RECURSIVE factory_deps(_, _, _)
factory_deps(deps, i, st) ==
  IF i > Len(deps) \/ ~st.ok THEN st
  ELSE LET st1 == resolver_resolve(deps[i], st)
       IN factory_deps(deps, i + 1,
            IF st1.ok THEN Returned(st1, Append(st.value, st1.value))
            ELSE st1)

\* mutant: the target is built once and handed out again
factory_create_mut(st) ==
  LET st1 == factory_deps(st.res.ops[FactoryKey], 1, Returned(st, <<>>))
  IN IF ~st1.ok THEN st1
     ELSE Returned([st1 EXCEPT !.res.created = @ \cup {{<<3, 1>>}}],
                   [target |-> {<<3, 1>>}, deps |-> st1.value])

\* Factory.create: the DI parameters are resolved, then the target type is
\* called; the value is [target, deps]: the new object and the values its
\* DI parameters received
factory_create(st) ==
  LET st1 == factory_deps(st.res.ops[FactoryKey], 1, Returned(st, <<>>))
  IN IF ~st1.ok THEN st1
     ELSE Returned([st1 EXCEPT !.hp = @ + 1,
                               !.res.created = @ \cup {{<<3, st1.hp + 1>>}}],
                   [target |-> {<<3, st1.hp + 1>>}, deps |-> st1.value])

\* mutant: a logger is made on the spot for any key whose resolution raised
resolve_op_deps_mut(deps, i, st) ==
  IF i > Len(deps) \/ ~st.ok THEN st
  ELSE LET st1 == resolver_resolve(deps[i], st)
       IN resolve_op_deps(deps, i + 1,
            IF st1.ok THEN st1 ELSE Returned(st1, LoggerObj))

\* for dep_key in operation.dependencies(): try resolve, except ValueError:
\* a logger made on the spot for the unnamed logger key, else re-raise
resolve_op_deps(deps, i, st) ==
  IF i > Len(deps) \/ ~st.ok THEN st
  ELSE LET st1 == resolver_resolve(deps[i], st)
       IN resolve_op_deps(deps, i + 1,
            IF st1.ok THEN st1
            ELSE IF should_auto_inject_logger(deps[i])
            THEN Returned(st1, LoggerObj)
            ELSE st1)

\* DependencyResolver.__init__
new_resolver(ops, parent) ==
  [made |-> TRUE, ops |-> ops, parent |-> parent, instances |-> NoInstances,
   resolving |-> {}, calls |-> [k \in LocKeys |-> 0], created |-> {},
   unmet |-> {}, leaked |-> {}]

\* resolver = DependencyResolver(graph, None, None, parent_locator)
MakeResolver(ops, parent) ==
  /\ ~resolver.made
  /\ resolver' = new_resolver(ops, parent)
  /\ lastOp' = OpResult("make", parent, NoKey, TRUE, {})
  /\ UNCHANGED <<pvars, locators, heap, sum, scope, steps>>

\* resolver.resolve(key)
Resolve(key) ==
  /\ resolver.made
  /\ LET st == resolver_resolve(key, [res |-> resolver, locs |-> locators,
                                      hp |-> heap, ok |-> TRUE, value |-> {}])
     IN /\ resolver' = st.res
        /\ locators' = st.locs
        /\ heap' = st.hp
        /\ lastOp' = OpResult("resolve", resolver.parent, key, st.ok, st.value)
  /\ UNCHANGED <<pvars, sum, scope, steps>>

\* factory = resolver.resolve(DIKey(Factory[T])); factory.create()
FactoryCreate ==
  /\ resolver.made
  /\ FactoryKey \in DOMAIN resolver.instances
  /\ LET st == factory_create([res |-> resolver, locs |-> locators,
                               hp |-> heap, ok |-> TRUE, value |-> {}])
     IN /\ resolver' = st.res
        /\ locators' = st.locs
        /\ heap' = st.hp
        /\ lastOp' = OpResult("factory_create", resolver.parent, FactoryKey,
                              st.ok, st.value)
  /\ UNCHANGED <<pvars, sum, scope, steps>>

\* locator.run(func), func with the parameters params; lastOp.key holds the
\* parameters and lastOp.value what each of them received
LRun(l, params) ==
  LET res == locator_impl_run(locators, l, params)
  IN /\ locators' = res.locs
     /\ lastOp' = OpResult("run", l, params, res.ok, res.received)
     /\ UNCHANGED <<pvars, heap, resolver, sum, scope, steps>>

\* locator = injector.produce(plan), once more from the same Plan
ProduceLocator ==
  /\ pc = "planned"
  /\ LET st == produce(bindings, set_bindings, topology, heap)
     IN /\ heap' = st.hp
        /\ IF st.err.kind = "none"
           THEN /\ locators' = Append(locators,
                                      create_locator(KeysOf(bindings),
                                                     st.instances, 0))
                /\ lastOp' = OpResult("produce", Len(locators) + 1, NoKey,
                                      TRUE, {})
           ELSE /\ lastOp' = OpResult("produce", 0, NoKey, FALSE, {})
                /\ UNCHANGED locators
  /\ UNCHANGED <<pvars, resolver, sum, scope, steps>>

\* -------------------------------------------- Injector.inherit: planning
\* The DependencyGraph of an Injector that inherits a parent Locator: a
\* dependency without a local binding and without set elements is missing
\* only when the parent Locator does not have it either.
\* mutant: the parent Locator is not asked
MissingPairsInherited_mut(ns, bs, sb, locs, parent) == MissingPairs(ns, bs, sb)

\* the (node index, dependency index) pairs whose key has no binding, no
\* set element and is not in the parent Locator
MissingPairsInherited(ns, bs, sb, locs, parent) ==
  {p \in MissingPairs(ns, bs, sb) :
     ~locator_impl_has(locs, parent, ns[p[1]].dependencies[p[2]])}

\* _check_missing_dependencies with a parent Locator: the first missing
\* pair in iteration order, as the exception raised, or NoErr
check_missing_inherited(ns, bs, sb, locs, parent) ==
  LET miss == MissingPairsInherited(ns, bs, sb, locs, parent)
  IN IF miss = {} THEN NoErr
     ELSE LET p == CHOOSE q \in miss :
                     \A r \in miss : q[1] < r[1] \/ (q[1] = r[1] /\ q[2] <= r[2])
          IN Err("MissingBinding", ns[p[1]].dependencies[p[2]], ns[p[1]].key, <<>>)

\* validate of the inheriting Injector's graph
validate_inherited(bs, sb, locs, parent) ==
  LET ns == build_graph(bs)
      e1 == check_missing_inherited(ns, bs, sb, locs, parent)
      e2 == IF e1.kind = "none" THEN check_circular_dependencies(ns) ELSE e1
  IN [nodes |-> ns, err |-> e2]

\* Injector.inherit(parent).plan(input), "graph.validate()"
ValidateInherited(parent) ==
  /\ pc = "validate"
  /\ IF validated
     THEN /\ pc' = "roots"
          /\ UNCHANGED <<nodes, validated, err>>
     ELSE LET res == validate_inherited(bindings, set_bindings, locators, parent)
          IN /\ nodes' = res.nodes
             /\ err' = res.err
             /\ validated' = (res.err.kind = "none")
             /\ pc' = IF res.err.kind = "none" THEN "roots" ELSE "failed"
  /\ UNCHANGED <<modules, activation, roots, bindings, alternative_bindings,
                 set_bindings, collected, topology, instances, lastGet>>
  /\ steps' = IF validated THEN steps ELSE Append(steps, "validate")
  /\ UNCHANGED ovars

\* ------------------------------------------- produce_run: lifecycle scope
\* produce_run with lifecycle resources: the Locator is produced (every
\* resource of the Plan acquired), the user function is run, and on scope
\* exit the registered releases are called one by one.  scope = [stage,
\* acquired, released, ran, failed]: the keys acquired and released so far,
\* in order, whether the user function has returned and whether produce
\* raised.
\* mutant: the releases are called in the order of acquisition
release_next_mut(acquired, released) == acquired[Len(released) + 1]

\* the resource released next: the last one acquired that is not released
release_next(acquired, released) == acquired[Len(acquired) - Len(released)]

\* produce_run: plan = self.plan(input); locator = self.produce(plan)
EnterScope ==
  /\ pc = "planned"
  /\ scope.stage = "none"
  /\ LET st == produce(bindings, set_bindings, topology, heap)
     IN /\ heap' = st.hp
        /\ IF st.err.kind = "none"
           THEN /\ locators' = Append(locators,
                                      create_locator(KeysOf(bindings),
                                                     st.instances, 0))
                /\ scope' = [scope EXCEPT !.stage = "entered",
                                          !.acquired = st.acquired]
           ELSE /\ scope' = [scope EXCEPT !.stage = "exiting",
                                          !.acquired = st.acquired,
                                          !.failed = TRUE]
                /\ UNCHANGED locators
  /\ UNCHANGED <<pvars, lastOp, resolver, sum, steps>>

\* produce_run: locator.run(func) returns
RunUser ==
  /\ scope.stage = "entered"
  /\ scope' = [scope EXCEPT !.stage = "exiting", !.ran = TRUE]
  /\ UNCHANGED <<pvars, locators, heap, lastOp, resolver, sum, steps>>

\* scope exit: one more release is called, or the scope is closed
ReleaseNext ==
  /\ scope.stage = "exiting"
  /\ IF Len(scope.released) < Len(scope.acquired)
     THEN scope' = [scope EXCEPT !.released =
                      Append(@, release_next(scope.acquired, scope.released))]
     ELSE scope' = [scope EXCEPT !.stage = "closed"]
  /\ UNCHANGED <<pvars, locators, heap, lastOp, resolver, sum, steps>>

\* ---------------------------------------------- inputs: chains of Locators
\* A chain of at most MaxLocators Locators: the first one over the empty
\* Locator, every other one a child of the one before it, each with or
\* without a binding for key A in its Plan and with or without an instance
\* for A handed in; no Locator has key B; the unnamed logger key is bound
\* nowhere.
MaxLocators == 3

TableKeys == {"A"}

CreateAny ==
  /\ Len(locators) < MaxLocators
  /\ \E plan \in SUBSET TableKeys, inst_keys \in SUBSET TableKeys,
        parent \in {Len(locators)} :
        CreateLocator(plan, inst_keys, parent)

GetLoc == \E l \in 1..Len(locators), key \in LocKeys : LGet(l, key)

NextLoc ==
  \/ CreateAny
  \/ GetLoc

SpecLoc == Init /\ [][NextLoc]_vars

\* --------------------------------------- inputs: the Locator's utilities
\* A chain of at most MaxUtilLocators Locators of the same kind, with get,
\* find, has and is_resolved called on them in any order.
MaxUtilLocators == 2

CreateUtil ==
  /\ Len(locators) < MaxUtilLocators
  /\ \E plan \in SUBSET TableKeys, inst_keys \in SUBSET TableKeys :
        CreateLocator(plan, inst_keys, Len(locators))

FindLoc == \E l \in 1..Len(locators), key \in LocKeys : LFind(l, key)
HasLoc == \E l \in 1..Len(locators), key \in LocKeys : LHas(l, key)
IsResolvedLoc == \E l \in 1..Len(locators), key \in LocKeys : LIsResolved(l, key)

NextUtil ==
  \/ CreateUtil
  \/ GetLoc
  \/ FindLoc
  \/ HasLoc
  \/ IsResolvedLoc

SpecUtil == Init /\ [][NextUtil]_vars

\* ------------------------------------------------- inputs: Locator.run
\* One Locator over the empty Locator, as Injector.produce leaves it (an
\* instance for every key of its Plan, any of A and B), and
\* functions of at most MaxParams typed parameters, required or optional,
\* run on them.
MaxParams == 2

RunKeys == {"A", "B"}

Params == SeqUpTo([key : LocKeys, optional : BOOLEAN], MaxParams)

CreateRun ==
  /\ locators = <<>>
  /\ \E inst_keys \in SUBSET RunKeys :
        CreateLocator(inst_keys, inst_keys, 0)

RunLoc == \E l \in 1..Len(locators), params \in Params : LRun(l, params)

NextRun ==
  \/ CreateRun
  \/ RunLoc

SpecRun == Init /\ [][NextRun]_vars

\* ------------------------------------------- inputs: DependencyResolver
\* A chain of at most MaxResLocators Locators and one resolver whose
\* parent_locator is None or the last Locator made so far; its graph has
\* operations for any of the keys A and B, each with at most MaxOpDeps
\* dependencies among A, B and the unnamed logger key (cycles included:
\* the resolver has its own check for them).  A key's operation is
\* executed at most MaxCalls times.
MaxResLocators == 1

MaxOpDeps == 1

MaxCalls == 2

OpTables ==
  UNION {[S -> SeqUpTo(LocKeys, MaxOpDeps)] : S \in SUBSET RunKeys}

CreateRes ==
  /\ Len(locators) < MaxResLocators
  /\ \E inst_keys \in SUBSET TableKeys :
        CreateLocator(inst_keys, inst_keys, Len(locators))

MakeAny ==
  \E ops \in OpTables, parent \in {NoParent, Len(locators)} :
     MakeResolver(ops, parent)

ResolveAny ==
  /\ resolver.made
  /\ \A k \in LocKeys : resolver.calls[k] < MaxCalls
  /\ \E key \in LocKeys : Resolve(key)

NextRes ==
  \/ CreateRes
  \/ MakeAny
  \/ ResolveAny

SpecRes == Init /\ [][NextRes]_vars

\* --------------------------------------- inputs: Locators of one Plan
\* A Plan of at most MaxProdBindings untagged bindings for the keys A and
\* B, each a class, a factory or a value, the one for A with or without
\* the dependency B; at most MaxProduced Locators are produced from the
\* Plan and any key is asked from any of them.
MaxProdBindings == 2

MaxProduced == 2

ProdBindings ==
  {b \in {[id |-> Len(modules) + 1, key |-> k, btype |-> bt, deps |-> d,
           tags |-> {}] :
             k \in NextKeys \cap RunKeys,
             bt \in {"class", "factory", "instance"},
             d \in {<<>>, <<"B">>}} :
     b.deps # <<>> => (b.key = "A" /\ b.btype # "instance")}

AddProdBinding ==
  /\ Len(modules) < MaxProdBindings
  /\ \E b \in ProdBindings : AddBinding(b)

ProduceAny ==
  /\ Len(locators) < MaxProduced
  /\ ProduceLocator

NextProd ==
  \/ AddProdBinding
  \/ FilterGraph
  \/ Validate
  \/ ChooseRootsSel
  \/ GarbageCollect
  \/ TopologicalOrder
  \/ ProduceAny
  \/ GetLoc

SpecProd == Init /\ [][NextProd]_vars

\* ------------------------------------------- inputs: inherited Locators
\* A chain of at most MaxInhLocators parent Locators, made before the child
\* module is written; the child Injector inherits the last of them (none:
\* the empty Locator).  The child module has at most MaxInhBindings
\* bindings for the keys A and B with at most MaxInhDeps dependencies each,
\* and is planned with Roots.everything().
MaxInhLocators == 2

MaxInhBindings == 2

MaxInhDeps == 1

CreateInh ==
  /\ pc = "add" /\ modules = <<>>
  /\ Len(locators) < MaxInhLocators
  /\ \E inst_keys \in SUBSET TableKeys :
        CreateLocator(inst_keys, inst_keys, Len(locators))

AddInhBinding ==
  /\ Len(modules) < MaxInhBindings
  /\ \E b \in {g \in GraphBindings : g.key \in RunKeys /\ Len(g.deps) <= MaxInhDeps} :
        AddBinding(b)

ValidateChild == ValidateInherited(Len(locators))

ChooseEverything == ValidateRoots(Everything)

NextInh ==
  \/ CreateInh
  \/ AddInhBinding
  \/ FilterGraph
  \/ ValidateChild
  \/ ChooseEverything
  \/ GarbageCollect
  \/ TopologicalOrder

SpecInh == Init /\ [][NextInh]_vars

\* ------------------------------------------------ inputs: logger keys
\* A chain of at most MaxLogLocators Locators, each with or without a
\* binding in its Plan and with or without an instance handed in for the
\* unnamed and for the named logger key, and get of either key on any of
\* them.
MaxLogLocators == 2

LogKeys == {LoggerKey, NamedLoggerKey}

CreateLog ==
  /\ Len(locators) < MaxLogLocators
  /\ \E plan \in SUBSET LogKeys, inst_keys \in SUBSET LogKeys :
        CreateLocator(plan, inst_keys, Len(locators))

GetLog == \E l \in 1..Len(locators), key \in LogKeys : LGet(l, key)

NextLog ==
  \/ CreateLog
  \/ GetLog

SpecLog == Init /\ [][NextLog]_vars

\* -------------------------------------------- inputs: lifecycle scopes
\* A Plan of at most MaxLifeBindings untagged bindings for the keys A and
\* B, each a class or a lifecycle resource, the one for A with or without
\* the dependency B, run once through produce_run.
MaxLifeBindings == 2

LifeBindings ==
  {b \in {[id |-> Len(modules) + 1, key |-> k, btype |-> bt, deps |-> d,
           tags |-> {}] :
             k \in NextKeys \cap RunKeys,
             bt \in {"class", "resource"},
             d \in {<<>>, <<"B">>}} :
     b.deps # <<>> => b.key = "A"}

AddLifeBinding ==
  /\ Len(modules) < MaxLifeBindings
  /\ \E b \in LifeBindings : AddBinding(b)

NextLife ==
  \/ AddLifeBinding
  \/ FilterGraph
  \/ Validate
  \/ ChooseRootsSel
  \/ GarbageCollect
  \/ TopologicalOrder
  \/ EnterScope
  \/ RunUser
  \/ ReleaseNext

SpecLife == Init /\ [][NextLife]_vars

\* --------------------------------------------------- inputs: Factory[T]
\* A resolver without parent Locator whose graph has, or has not, a
\* CreateFactory operation for Factory[T], T with at most MaxFacDeps
\* parameters resolved by DI among A and B, and operations for A (with or
\* without the dependency B) and for B; any key is resolved and the
\* factory is called at most MaxCreated times.
MaxFacDeps == 2

MaxCreated == 2

FacTables ==
  {t \in UNION {[S -> SeqUpTo(RunKeys, MaxFacDeps)] :
                  S \in SUBSET (RunKeys \cup {FactoryKey})} :
     /\ "A" \in DOMAIN t => t["A"] \in {<<>>, <<"B">>}
     /\ "B" \in DOMAIN t => t["B"] = <<>>}

MakeFac == \E ops \in FacTables : MakeResolver(ops, NoParent)

ResolveFac ==
  \E key \in RunKeys \cup {FactoryKey} : Resolve(key)

CreateFac ==
  /\ resolver.made
  /\ Cardinality(resolver.created) < MaxCreated
  /\ FactoryCreate

NextFac ==
  \/ MakeFac
  \/ ResolveFac
  \/ CreateFac

SpecFac == Init /\ [][NextFac]_vars

\* -------------------------------------------------- inputs: Roots values
\* Roots.everything(), Roots.empty() and Roots.target(...) of at most
\* MaxRootKeys keys, composed pairwise with +.
MaxRootKeys == 2

RootValues == {Everything} \cup {Target(ks) : ks \in SeqUpTo(Keys, MaxRootKeys)}

\* combined = left + right
Compose(left, right) ==
  /\ sum' = [left |-> left, right |-> right,
             result |-> roots_add(left, right), done |-> TRUE]
  /\ UNCHANGED <<pvars, locators, heap, lastOp, resolver, scope, steps>>

ComposeAny == \E left, right \in RootValues : Compose(left, right)

NextRoots ==
  \/ ComposeAny

SpecRoots == Init /\ [][NextRoots]_vars

\* ------------------------------------------------------------ properties
\* The dependency relation of the graph's nodes, stated without the
\* traversals above: k -> d when the binding of k asks for d and d is a node.
Edges(ns) ==
  UNION {{<<ns[i].key, d>> : d \in Range(ns[i].dependencies) \cap KeysOf(ns)} :
         i \in 1..Len(ns)}

RECURSIVE Closure(_, _, _)
Closure(E, S, n) ==
  IF n = 0 THEN S
  ELSE Closure(E, S \cup {e[2] : e \in {f \in E : f[1] \in S}}, n - 1)

\* k reaches d along one or more edges
Reaches(E, k, d) ==
  d \in Closure(E, {e[2] : e \in {f \in E : f[1] = k}}, Cardinality(Keys))

HasCycle(ns) == \E k \in KeysOf(ns) : Reaches(Edges(ns), k, k)

\* some binding of the regular table asks for a key that has neither a
\* regular binding nor a set element
HasMissing(bs, sb) ==
  \E i \in 1..Len(bs) : \E d \in Range(bs[i].deps) :
     d \notin KeysOf(bs) /\ sb[d] = <<>>

Pos(seq, x) == CHOOSE i \in 1..Len(seq) : seq[i] = x

\* plan() has returned a Plan
Planned == pc \in {"planned", "produced", "produce_failed"}

\* C1: for bindings that are acyclic and fully bound (and roots that are
\* valid) plan construction succeeds, and the plan's topological order lists
\* every node exactly once with every key after all the keys it depends on.
C1_TopologicalOrder ==
  /\ (pc = "failed" /\ err.kind # "InvalidRoot")
       => (HasCycle(nodes) \/ HasMissing(bindings, set_bindings))
  /\ Planned =>
       /\ Len(topology) = Len(nodes)
       /\ Range(topology) = KeysOf(nodes)
       /\ \A e \in Edges(nodes) : Pos(topology, e[2]) < Pos(topology, e[1])

\* C2: when every dependency key is bound and the dependency relation of the
\* validated graph has a cycle, validation fails with CircularDependency, and
\* the cycle of every CircularDependency is a closed path of dependency
\* edges: first key = last key, each consecutive pair an edge, never empty.
ClosedPath(c, E) ==
  /\ Len(c) >= 2
  /\ c[1] = c[Len(c)]
  /\ \A i \in 1..(Len(c) - 1) : <<c[i], c[i + 1]>> \in E

C4_NeverDeferred ==
  pc # "produce_failed"

\* the alternatives registered for key k, in declaration order
Alts(k) ==
  IF \E i \in 1..Len(alternative_bindings) : alternative_bindings[i][1].key = k
  THEN alternative_bindings[CHOOSE i \in 1..Len(alternative_bindings) :
                              alternative_bindings[i][1].key = k]
  ELSE <<>>

TagList(k) == [i \in 1..Len(Alts(k)) |-> Alts(k)[i].tags]

IsPerm(tl, S) == Len(tl) = Cardinality(S) /\ Range(tl) = S

\* the binding the graph holds for k, as a sequence of length 0 or 1
Selected(k) == get_binding(bindings, k)

SelectedTags(k) == {Selected(k)[i].tags : i \in 1..Len(Selected(k))}

\* the positions of the alternatives of k that match the activation
MatchingAlts(k) ==
  {i \in 1..Len(Alts(k)) : matches_activation(Alts(k)[i], activation)}

\* the activation has been applied to the graph
Filtered == pc # "add"

\* C5: with alternatives tagged {Prod}, {Test} and untagged, in any order,
\* Activation{Mode:Test} selects the Test binding and the empty Activation
\* the untagged one; with only {Test} and untagged, Activation{Mode:Prod}
\* selects the untagged one.
C5_ModeSelection ==
  Filtered =>
    /\ IsPerm(TagList("A"), {{"Prod"}, {"Test"}, {}}) =>
         /\ activation = {"Test"} => SelectedTags("A") = {{"Test"}}
         /\ activation = {} => SelectedTags("A") = {{}}
    /\ (IsPerm(TagList("A"), {{"Test"}, {}}) /\ activation = {"Prod"})
         => SelectedTags("A") = {{}}

\* untagged declared first, Test last, and the instance built under
\* Activation{Mode:Test} is the Test binding's
C5_Witness ==
  /\ pc = "produced"
  /\ activation = {"Test"}
  /\ TagList("A") = <<{}, {"Prod"}, {"Test"}>>
  /\ instances["A"] = {<<3, 1>>}

\* C6 as claimed, for any Activation: when alternatives with 1 and with 2
\* tags both match, the selected binding matches and has at least 2 tags.
SpecificPair(k) ==
  \E i, j \in MatchingAlts(k) :
     Cardinality(Alts(k)[i].tags) = 1 /\ Cardinality(Alts(k)[j].tags) = 2

MoreSpecificSelected(k) ==
  /\ Selected(k) # <<>>
  /\ matches_activation(Selected(k)[1], activation)
  /\ Cardinality(Selected(k)[1].tags) >= 2

FirstOfLargest(k) ==
  CHOOSE i \in MatchingAlts(k) :
    /\ \A j \in MatchingAlts(k) :
         Cardinality(Alts(k)[j].tags) <= Cardinality(Alts(k)[i].tags)
    /\ \A j \in MatchingAlts(k) :
         Cardinality(Alts(k)[j].tags) = Cardinality(Alts(k)[i].tags) => i <= j

C7_AnyActivation ==
  (Filtered /\ Cardinality(MatchingAlts("A")) >= 2)
    => Selected("A") = <<Alts("A")[FirstOfLargest("A")]>>

\* C7 as amended: the same for any non-empty Activation.
C7_FirstRegisteredWins ==
  (Filtered /\ activation # {} /\ Cardinality(MatchingAlts("A")) >= 2)
    => Selected("A") = <<Alts("A")[FirstOfLargest("A")]>>

\* two matching alternatives with the same, largest, tag set after a smaller
\* one: the second registered binding is selected, not the third
C7_Witness ==
  /\ pc = "planned"
  /\ activation = {"Test"}
  /\ TagList("A") = <<{}, {"Test"}, {"Test"}>>
  /\ Selected("A")[1].id = 2

\* C8: under a non-empty Activation a key none of whose alternatives matches
\* is unbound after selection, and no selected binding is incompatible with
\* the Activation.
C8_IncompatibleUnbound ==
  (Filtered /\ activation # {}) =>
    /\ (MatchingAlts("A") = {} => Selected("A") = <<>>)
    /\ \A i \in 1..Len(bindings) : matches_activation(bindings[i], activation)

\* the keys with a regular binding before pruning, and the dependencies
\* their bindings ask for (one alternative per key, no activation)
BoundKeys ==
  {alternative_bindings[i][1].key : i \in 1..Len(alternative_bindings)}

DeclaredEdges ==
  UNION {{<<alternative_bindings[i][1].key, d>> :
            d \in Range(alternative_bindings[i][1].deps)} :
         i \in 1..Len(alternative_bindings)}

ReachableFromRoots ==
  Closure(DeclaredEdges, Range(roots.keys), Cardinality(Keys))

NoSetElements == \A i \in 1..Len(modules) : modules[i].btype # "set_element"

\* C9: with Roots.target(X) the plan keeps exactly the bound keys reachable
\* from X (X and its dependency Y, not an unrelated Z), producing succeeds,
\* get(X) succeeds and get(Z) fails as unbound; with Roots.everything() no
\* binding is removed and every bound key resolves.
C9_TargetPrunes ==
  /\ (Planned /\ NoSetElements) => pc # "produce_failed"
  /\ (Planned /\ roots.everything) =>
       /\ ~collected
       /\ KeysOf(bindings) = BoundKeys
       /\ pc = "produced" =>
            \A k \in BoundKeys :
               k \in DOMAIN instances /\ (lastGet.key = k => lastGet.ok)
  /\ (Planned /\ ~roots.everything) =>
       LET kept == BoundKeys \cap ReachableFromRoots
       IN /\ KeysOf(bindings) = kept
          /\ pc = "produced" =>
               \A k \in PlainKeys :
                  lastGet.key = k => (lastGet.ok <=> k \in kept)

\* roots = target(A), A asks for B, C is bound and unrelated: B was
\* instantiated and get(C) fails
C9_Witness ==
  /\ pc = "produced"
  /\ roots = Target(<<"A">>)
  /\ <<"A", "B">> \in DeclaredEdges
  /\ {"B", "C"} \subseteq BoundKeys
  /\ "C" \notin ReachableFromRoots
  /\ "B" \in DOMAIN instances
  /\ lastGet.key = "C"
  /\ ~lastGet.ok

\* C10: root validation fails with an invalid-root error exactly when some
\* root key has neither a regular binding nor a set element in the unpruned
\* graph, and then pruning never runs.
RootUnbound(k) == k \notin KeysOf(bindings) /\ set_bindings[k] = <<>>

C11_EverythingAbsorbing ==
  (sum.done /\ (is_everything(sum.left) \/ is_everything(sum.right)))
    => is_everything(sum.result)

\* the instance table of Locator l
Table(l) == locators[l].instances

\* the nearest Locator, from l up its parent chain, whose table has key; 0
\* when none has
RECURSIVE NearestHolder(_, _, _)
NearestHolder(locs, l, key) ==
  IF l = 0 THEN 0
  ELSE IF key \in DOMAIN locs[l].instances THEN l
  ELSE NearestHolder(locs, locs[l].parent, key)

\* C14: when a Locator holds an instance for the key asked for, get returns
\* that instance, whatever its parent holds for the same key: the child's
\* get returns the child's instance and the parent's get the parent's.
C14_ChildShadowsParent ==
  (lastOp.op = "get" /\ lastOp.key \in DOMAIN Table(lastOp.loc)) =>
     /\ lastOp.ok
     /\ lastOp.value = Table(lastOp.loc)[lastOp.key]

\* child and parent hold different instances for A and the child was asked
C14_Witness ==
  /\ lastOp.op = "get"
  /\ lastOp.loc = 2
  /\ lastOp.key = "A"
  /\ "A" \in DOMAIN Table(1) \cap DOMAIN Table(2)
  /\ Table(1)["A"] # Table(2)["A"]
  /\ lastOp.value = Table(2)["A"]

\* C15: get(K) returns the instance held by the nearest Locator of the
\* chain that has K and changes no table; when no Locator of the chain has
\* K and K is not the unnamed logger key, get fails and changes no table.
C15_NearestAncestor ==
  [][lastOp'.op = "get" =>
       LET h == NearestHolder(locators, lastOp'.loc, lastOp'.key)
       IN IF h # 0
          THEN /\ lastOp'.ok
               /\ lastOp'.value = Table(h)[lastOp'.key]
               /\ locators' = locators
          ELSE lastOp'.key # LoggerKey =>
                 (~lastOp'.ok /\ locators' = locators)]_vars

\* the third Locator has no A, its parent and its grandparent hold
\* different instances, and get returned the parent's
C15_Witness ==
  /\ Len(locators) >= 3
  /\ lastOp.op = "get"
  /\ lastOp.loc = 3
  /\ lastOp.key = "A"
  /\ "A" \notin DOMAIN Table(3)
  /\ "A" \in DOMAIN Table(1) \cap DOMAIN Table(2)
  /\ lastOp.ok
  /\ lastOp.value = Table(2)["A"]

\* C19: for a Locator whose Plan has a binding for K, has(K) is true and
\* get(K) returns an instance; after a get that returned, is_resolved(K) is
\* true and find(K) returns the same instance; in general, whenever has(K)
\* is true get(K) succeeds.
C19_HasImpliesGet ==
  /\ (lastOp.op = "has" /\ has_binding(locators[lastOp.loc].plan, lastOp.key))
       => lastOp.ok
  /\ (lastOp.op \in {"get", "find"}
        /\ locator_impl_has(locators, lastOp.loc, lastOp.key))
       => lastOp.ok
  /\ (lastOp.op = "is_resolved" /\ lastOp.ok)
       => locator_impl_get(locators, lastOp.loc, lastOp.key).ok

\* get(key) on Locator l returns
Resolvable(l, key) == locator_impl_get(locators, l, key).ok

\* C20: Locator.run(f) resolves each typed parameter of f from the Locator
\* and omits the optional ones that cannot be resolved; when f is invoked,
\* every parameter whose key the Locator resolves receives exactly the
\* instance get returns for that key, also when an omitted optional
\* parameter precedes it, and an omitted parameter receives nothing; when a
\* required parameter cannot be resolved, run fails and f is not invoked.

C20_RunBindsParameters ==
  lastOp.op = "run" =>
    LET l == lastOp.loc
        params == lastOp.key
        all_resolved == \A i \in 1..Len(params) :
                           params[i].optional \/ Resolvable(l, params[i].key)
    IN /\ lastOp.ok =>
            (\A i \in 1..Len(params) :
                IF Resolvable(l, params[i].key)
                THEN lastOp.value[i]
                       = locator_impl_get(locators, l, params[i].key).value
                ELSE lastOp.value[i] = {})
       /\ (lastOp.ok <=> all_resolved)

\* C12: within one resolver, over any sequence of resolve calls, the
\* operation of a key is executed at most once, an entry of the instance
\* table is never removed or replaced, and a resolve of a key that has an
\* entry returns exactly that entry.
C12_ProducedOnce ==
  [][(resolver.made /\ resolver'.made) =>
       /\ \A k \in LocKeys : resolver'.calls[k] <= 1
       /\ \A k \in DOMAIN resolver.instances :
             /\ k \in DOMAIN resolver'.instances
             /\ resolver'.instances[k] = resolver.instances[k]
       /\ (lastOp'.op = "resolve" /\ lastOp'.key \in DOMAIN resolver.instances)
            => (lastOp'.ok /\ lastOp'.value = resolver.instances[lastOp'.key])
    ]_vars

\* a resolve of B answered from the table: B was built as the dependency
\* of A in an earlier call
C12_Witness ==
  /\ resolver.made
  /\ lastOp.op = "resolve" /\ lastOp.key = "B" /\ lastOp.ok
  /\ "A" \in DOMAIN resolver.ops /\ resolver.ops["A"] = <<"B">>
  /\ "B" \in DOMAIN resolver.ops
  /\ "A" \in DOMAIN resolver.instances
  /\ resolver.calls["A"] = 1 /\ resolver.calls["B"] = 1
  /\ lastOp.value = resolver.instances["B"]

\* C16: a resolve on a child's resolver, falling back to the parent
\* Locator or not, leaves the instance table of every Locator as it was,
\* for every key including the unnamed logger key.
C16_ParentUnchanged ==
  [][lastOp'.op = "resolve" =>
       \A l \in 1..Len(locators) : locators'[l].instances = locators[l].instances
    ]_vars

\* resolve(key) on the resolver res
ResolveFrom(res, locs, hp, key) ==
  resolver_resolve(key, [res |-> res, locs |-> locs, hp |-> hp,
                         ok |-> TRUE, value |-> {}])

\* C18: a failed resolve leaves the resolver usable: every entry of the
\* instance table is still there unchanged, the key that failed has no
\* entry, no key is left marked as being resolved, and every other key
\* that could be resolved before the call can still be resolved.

C18_FailureKeepsUsable ==
  [][(lastOp'.op = "resolve" /\ ~lastOp'.ok) =>
       /\ \A k \in DOMAIN resolver.instances :
             /\ k \in DOMAIN resolver'.instances
             /\ resolver'.instances[k] = resolver.instances[k]
       /\ lastOp'.key \notin DOMAIN resolver'.instances
       /\ resolver'.resolving = {}
       /\ \A k \in LocKeys \ {lastOp'.key} :
             ResolveFrom(resolver, locators, heap, k).ok
               => ResolveFrom(resolver', locators', heap', k).ok
    ]_vars

\* a resolve that failed on a resolver holding an instance, while another
\* key is resolved by the next call
C18_Witness ==
  /\ resolver.made
  /\ lastOp.op = "resolve" /\ ~lastOp.ok
  /\ resolver.instances # NoInstances
  /\ \E k \in LocKeys \ (DOMAIN resolver.instances \cup {lastOp.key}) :
        ResolveFrom(resolver, locators, heap, k).ok

\* the Plan binds k to a class or a factory
Constructed(k) ==
  \E i \in 1..Len(bindings) :
     bindings[i].key = k /\ bindings[i].btype \in {"class", "factory"}

\* the instances of two Locators for a constructed key differ
C13_Disjoint ==
  /\ \A l1, l2 \in 1..Len(locators) : \A k \in RunKeys :
        (l1 # l2 /\ Constructed(k) /\ k \in DOMAIN Table(l1)
           /\ k \in DOMAIN Table(l2))
          => /\ Table(l1)[k] # Table(l2)[k]
             /\ locator_impl_get(locators, l1, k).value
                  # locator_impl_get(locators, l2, k).value

\* a step changes no Locator but the one it is made on
C13_Isolated ==
  [][\A l \in 1..Len(locators) :
        l # lastOp'.loc => locators'[l] = locators[l]]_vars

\* C13: two Locators produced from the same Plan never hold the same
\* instance for a key bound to a class or a factory, get on either returns
\* its own instance, and producing or using one Locator leaves every entry
\* of every other Locator as it was.
C13_DisjointTables == []C13_Disjoint /\ C13_Isolated

\* two Locators of one Plan that binds A to a class or factory, both asked
\* for A
C13_Witness ==
  /\ Len(locators) = 2
  /\ Constructed("A")
  /\ "A" \in DOMAIN Table(1) /\ "A" \in DOMAIN Table(2)
  /\ lastOp.op = "get" /\ lastOp.key = "A" /\ lastOp.ok
  /\ lastOp.value = Table(lastOp.loc)["A"]

\* key d is held or bound by the Locator l or one of its ancestors
RECURSIVE InChain(_, _)
InChain(l, d) ==
  IF l = 0 THEN FALSE
  ELSE \/ d \in DOMAIN locators[l].instances
       \/ d \in locators[l].plan
       \/ InChain(locators[l].parent, d)

\* a binding of the child module asks for d, which the child module does
\* not bind
AsksUnbound(k, d) ==
  /\ \E i \in 1..Len(bindings) : bindings[i].key = k /\ d \in Range(bindings[i].deps)
  /\ d \notin KeysOf(bindings)
  /\ set_bindings[d] = <<>>

\* C17: a child Injector inheriting a parent Locator plans a module whose
\* binding depends on a key bound only in the parent chain without
\* Missing-Binding, and fails at plan-construction time with
\* Missing-Binding, naming the key and the binding that asked for it, when
\* a dependency is bound neither in the child module nor in the parent
\* chain.
C17_InheritedPlanning ==
  LET parent == Len(locators)
      lost == {kd \in Keys \X Keys :
                 AsksUnbound(kd[1], kd[2]) /\ ~InChain(parent, kd[2])}
  IN /\ (pc \notin {"add", "validate"} /\ lost # {})
          => /\ pc = "failed"
             /\ err.kind = "MissingBinding"
             /\ <<err.dependent, err.key>> \in lost
     /\ (pc \notin {"add", "validate"} /\ lost = {})
          => err.kind # "MissingBinding"

\* a Plan of a child module whose binding for B asks for A, which only the
\* parent Locator has
C17_Witness ==
  /\ pc = "planned"
  /\ Len(locators) >= 1
  /\ AsksUnbound("B", "A")
  /\ InChain(Len(locators), "A")

\* the Locator l or one of its ancestors holds an instance for key
RECURSIVE Held(_, _, _)
Held(locs, l, key) ==
  IF l = 0 THEN FALSE
  ELSE key \in DOMAIN locs[l].instances \/ Held(locs, locs[l].parent, key)

\* C21: get synthesizes a logger only for the unnamed logger key, only when
\* neither the Locator nor its parent chain holds an instance for it, and
\* never when the Locator's Plan has an explicit binding for the key; get
\* of a named logger key that nothing holds fails as unbound.
C21_LoggerSynthesis ==
  [][lastOp'.op = "get" =>
       LET l == lastOp'.loc
           key == lastOp'.key
       IN /\ (lastOp'.ok /\ ~Held(locators, l, key))
               => /\ key = LoggerKey
                  /\ ~has_binding(locators[l].plan, key)
          /\ (key = NamedLoggerKey /\ ~Held(locators, l, key)) => ~lastOp'.ok
          /\ Held(locators, l, key)
               => /\ lastOp'.ok
                  /\ lastOp'.value = Table(NearestHolder(locators, l, key))[key]
                  /\ locators' = locators
    ]_vars

\* the place of a graph operation in the order of plan construction
StepRank(op) ==
  CASE op = "filter" -> 1
    [] op = "validate" -> 2
    [] op = "roots" -> 3
    [] op = "gc" -> 4
    [] op = "topo" -> 5

\* C24: plan construction runs activation filtering, structural validation,
\* root validation and reachability pruning in this order, each at most
\* once: the missing/cycle checks run before root validation and pruning
\* and are not executed again after pruning, also not when the topological
\* order is computed.
C24_FixedOrder ==
  \A i, j \in 1..Len(steps) :
     i < j => StepRank(steps[i]) < StepRank(steps[j])

C23_FreshTarget ==
  [][(lastOp'.op = "factory_create" /\ lastOp'.ok) =>
       LET deps == resolver.ops[FactoryKey]
       IN /\ lastOp'.value.target \notin resolver.created
          /\ \A k \in DOMAIN resolver'.instances :
                lastOp'.value.target # resolver'.instances[k]
          /\ Len(lastOp'.value.deps) = Len(deps)
          /\ \A i \in 1..Len(deps) :
                /\ lastOp'.value.deps[i] = resolver'.instances[deps[i]]
                /\ deps[i] \in DOMAIN resolver.instances
                     => lastOp'.value.deps[i] = resolver.instances[deps[i]]
          /\ \A k \in DOMAIN resolver.instances :
                resolver'.instances[k] = resolver.instances[k]
    ]_vars

\* the second object made by a factory whose target has the DI parameter A
C23_Witness ==
  /\ resolver.made
  /\ lastOp.op = "factory_create" /\ lastOp.ok
  /\ Cardinality(resolver.created) = 2
  /\ resolver.ops[FactoryKey] = <<"A">>
  /\ lastOp.value.deps = <<resolver.instances["A"]>>

\* ------------------------------------------------ plan() as a function
\* DependencyGraph.add_binding on the three tables of a graph
add_binding(g, b) ==
  IF b.btype = "set_element"
  THEN [g EXCEPT !.set_bindings[b.key] = Append(@, b)]
  ELSE [g EXCEPT !.alternative_bindings = AltAppend(@, b),
                 !.bindings = AddMain(@, b)]

\* Injector._build_graph, "for module in input.modules: for binding in
\* module.bindings: graph.add_binding(binding)"
RECURSIVE add_all(_, _, _)
add_all(mods, i, g) ==
  IF i > Len(mods) THEN g ELSE add_all(mods, i + 1, add_binding(g, mods[i]))

\* the outcome of Injector.plan: the tables of the Plan's graph, its
\* topology and the exception raised, if any
PlanResult(bs, sb, topo, e) ==
  [bindings |-> bs, set_bindings |-> sb, topology |-> topo, err |-> e]

\* Injector.plan on a PlannerInput: _build_graph and get_topological_order
plan_of(mods, act, rs) ==
  LET g == add_all(mods, 1, [bindings |-> <<>>, alternative_bindings |-> <<>>,
                             set_bindings |-> [k \in Keys |-> <<>>]])
      bs == IF act = {} THEN g.bindings
            ELSE filter_bindings_by_activation(g.alternative_bindings, act, 1)
      sb == g.set_bindings
      v == validate(bs, sb)
      r == validate_roots(rs, bs, sb)
      reachable_keys == find_reachable_keys(rs, v.nodes, bs)
      bs2 == IF rs.everything THEN bs ELSE gc_bindings(bs, reachable_keys)
      sb2 == IF rs.everything THEN sb ELSE gc_set_bindings(sb, reachable_keys)
      v2 == IF rs.everything THEN v ELSE validate(bs2, sb2)
      top == topological_order(v2.nodes)
  IN IF v.err.kind # "none" THEN PlanResult(bs, sb, <<>>, v.err)
     ELSE IF r.kind # "none" THEN PlanResult(bs, sb, <<>>, r)
     ELSE IF v2.err.kind # "none" THEN PlanResult(bs2, sb2, <<>>, v2.err)
     ELSE PlanResult(bs2, sb2, top.order, top.err)

\* the element set.pop() takes when the set hands its elements out in the
\* order given
pop(to_visit, order) ==
  order[CHOOSE i \in 1..Len(order) :
          /\ order[i] \in to_visit
          /\ \A j \in 1..(i - 1) : order[j] \notin to_visit]

\* mutant: the keys still waiting are dropped when a key is taken
RECURSIVE reach_by_mut(_, _, _, _)
reach_by_mut(ns, visited, to_visit, order) ==
  IF to_visit = {} THEN visited
  ELSE LET current_key == pop(to_visit, order)
       IN IF current_key \in visited THEN reach_by_mut(ns, visited, {}, order)
          ELSE LET node == get_node(ns, current_key)
                   seen == visited \cup {current_key}
               IN reach_by_mut(ns, seen,
                               IF node # <<>>
                               THEN Range(node[1].dependencies) \ seen
                               ELSE {}, order)

\* the while loop of RootsFinder.find_reachable_keys when set.pop() hands
\* the keys out in the order given
RECURSIVE reach_by(_, _, _, _)
reach_by(ns, visited, to_visit, order) ==
  IF to_visit = {} THEN visited
  ELSE LET current_key == pop(to_visit, order)
           rest == to_visit \ {current_key}
       IN IF current_key \in visited THEN reach_by(ns, visited, rest, order)
          ELSE LET node == get_node(ns, current_key)
                   seen == visited \cup {current_key}
               IN reach_by(ns, seen,
                           rest \cup (IF node # <<>>
                                      THEN Range(node[1].dependencies) \ seen
                                      ELSE {}), order)

\* Injector._build_graph, the garbage collection step, with the order in
\* which set.pop() hands out the keys of to_visit made explicit
GarbageCollectBy(order) ==
  /\ pc = "gc"
  /\ IF roots.everything
     THEN UNCHANGED <<bindings, set_bindings, validated, collected>>
     ELSE LET reachable_keys == reach_by(nodes, {}, Range(roots.keys), order)
          IN /\ bindings' = gc_bindings(bindings, reachable_keys)
             /\ set_bindings' = gc_set_bindings(set_bindings, reachable_keys)
             /\ validated' = FALSE
             /\ collected' = TRUE
  /\ pc' = "topo"
  /\ UNCHANGED <<modules, activation, roots, alternative_bindings, nodes,
                 topology, instances, lastGet, err>>
  /\ steps' = IF roots.everything THEN steps ELSE Append(steps, "gc")
  /\ UNCHANGED ovars

\* ----------------------------------------------- inputs: plan determinism
\* Up to MaxDetBindings bindings of the plain keys, A tagged or untagged,
\* with the dependencies of DetDeps; the empty activation and one that has
\* the tag; no, one or two roots; every order of set.pop().
MaxDetBindings == 3

DetDeps ==
  [A |-> {<<>>, <<"B">>, <<"B", "C">>}, B |-> {<<>>, <<"C">>},
   C |-> {<<>>, <<"A">>}]

DetBindings ==
  {b \in [id : {Len(modules) + 1}, key : PlainKeys, btype : {"class"},
          deps : UNION {DetDeps[k] : k \in PlainKeys},
          tags : {{}, {"Prod"}}] :
     /\ Len(modules) < MaxDetBindings
     /\ b.deps \in DetDeps[b.key]
     /\ b.tags # {} => b.key = "A"}

DetRoots ==
  {Everything, Target(<<"A">>), Target(<<"A", "B">>), Target(<<"B", "C">>)}

PopOrders ==
  {o \in [1..3 -> PlainKeys] : \A i, j \in 1..3 : o[i] = o[j] => i = j}

AddDetBinding == \E b \in DetBindings : AddBinding(b)
FilterDet == \E act \in {{}, {"Prod"}} : FilterByActivation(act)
ChooseRootsDet == \E rs \in DetRoots : ValidateRoots(rs)
CollectAny == \E order \in PopOrders : GarbageCollectBy(order)

NextDet ==
  \/ AddDetBinding
  \/ FilterDet
  \/ Validate
  \/ ChooseRootsDet
  \/ CollectAny
  \/ TopologicalOrder

SpecDet == Init /\ [][NextDet]_vars

\* C25: the Plan is a function of the modules, the roots and the
\* activation: whatever order the traversal of the reachable keys takes,
\* plan() ends with the retained keys, the binding selected per key, the
\* topological order and the exception that plan_of computes from the
\* inputs alone; and no step of plan() changes the binding list of the
\* modules.
C25_Deterministic ==
  [][/\ pc # "add" => modules' = modules
     /\ pc' \in {"planned", "failed"}
          => plan_of(modules', activation', roots')
               = PlanResult(bindings', set_bindings', topology', err')
    ]_vars

\* a plan over two alternatives of A, filtered by an activation and pruned
\* from two roots, which set.pop() may hand out in either order
C25_Witness ==
  /\ pc = "planned"
  /\ collected
  /\ activation = {"Prod"}
  /\ Len(roots.keys) = 2
  /\ \E i \in 1..Len(alternative_bindings) : Len(alternative_bindings[i]) = 2

\* --------------------------------------------------- inputs: add sequences
\* Up to MaxAddBindings bindings of two keys, each a regular binding with
\* at most one activation tag or a set element (SetBindingBuilder.add gives
\* set elements no activation tags).
MaxAddBindings == 3

AddKeys == {"A", "B"}

AddBindings ==
  {b \in [id : {Len(modules) + 1}, key : AddKeys,
          btype : {"class", "set_element"}, deps : {<<>>},
          tags : {{}, {"Prod"}, {"Test"}}] :
     /\ Len(modules) < MaxAddBindings
     /\ b.btype = "set_element" => b.tags = {}}

AddAnyBinding == \E b \in AddBindings : AddBinding(b)
FilterAdd == \E act \in {{}, {"Prod"}} : FilterByActivation(act)

NextAdd ==
  \/ AddAnyBinding
  \/ FilterAdd

SpecAdd == Init /\ [][NextAdd]_vars

\* the bindings added for k so far, in the order they were added: the
\* regular ones, the untagged regular ones and the set elements
AddedRegular(k) ==
  SelectSeq(modules, LAMBDA b : b.key = k /\ b.btype # "set_element")

AddedUntagged(k) == SelectSeq(AddedRegular(k), LAMBDA b : b.tags = {})

AddedSetElements(k) ==
  SelectSeq(modules, LAMBDA b : b.key = k /\ b.btype = "set_element")

\* C26: before filtering, get_binding(K) is the last untagged regular
\* binding added for K if there is one, else the first regular binding
\* added for K, else nothing; the set elements of K are kept in their own
\* list in the order they were added and have no influence on
\* get_binding(K); and the alternatives of K are all its regular bindings
\* in the order they were added.
C26_AddLookup ==
  pc = "add" =>
    \A k \in Keys :
      /\ get_binding(bindings, k) =
           IF AddedUntagged(k) # <<>>
           THEN <<AddedUntagged(k)[Len(AddedUntagged(k))]>>
           ELSE IF AddedRegular(k) # <<>> THEN <<AddedRegular(k)[1]>>
           ELSE <<>>
      /\ get_set_bindings(set_bindings, k) = AddedSetElements(k)
      /\ Alts(k) = AddedRegular(k)

\* A has a tagged binding, then a set element, then an untagged binding:
\* the lookup returns the third, the alternatives are the first and third
C26_Witness ==
  /\ pc = "add"
  /\ Len(modules) = 3
  /\ modules[1].key = "A" /\ modules[1].tags = {"Prod"}
  /\ modules[2].key = "A" /\ modules[2].btype = "set_element"
  /\ modules[3].key = "A" /\ modules[3].btype = "class" /\ modules[3].tags = {}
  /\ get_binding(bindings, "A") = <<modules[3]>>
  /\ Len(Alts("A")) = 2

\* ------------------------------------- inputs: producers and dependencies
\* Either a Plan of at most MaxDepBindings bindings (A a class that may
\* depend on B or on the set S, B a class or a value, S a set whose
\* elements may depend on B) that is planned and produced, or a resolver over
\* operations for A and B with at most MaxDepDeps dependencies each, among
\* them the logger keys, with no parent, the empty Locator or a Locator
\* that holds B as its parent.
MaxDepBindings == 3

MaxDepDeps == 1

MaxDepCalls == 2

DepKeys == LocKeys \cup {NamedLoggerKey}

DepBindings ==
  {b \in [id : {Len(modules) + 1}, key : {"A", "B", "S"},
          btype : {"class", "instance", "set_element"},
          deps : {<<>>, <<"B">>, <<"S">>}, tags : {{}}] :
     /\ Len(modules) < MaxDepBindings
     /\ b.key \notin KeysOf(bindings)
     /\ (b.btype = "set_element") <=> IsSetKey(b.key)
     /\ b.deps # <<>> => (b.key # "B" /\ b.btype # "instance")
     /\ b.deps = <<"S">> => b.key = "A"}

DepOpTables ==
  UNION {[S -> SeqUpTo(DepKeys, MaxDepDeps)] : S \in SUBSET RunKeys}

\* the Plan is built and produced by an Injector of its own
PlanOnly == ~resolver.made /\ locators = <<>>

\* the resolver is made over a graph of its own
ResolverOnly == modules = <<>> /\ pc = "add"

AddDepBinding == PlanOnly /\ \E b \in DepBindings : AddBinding(b)
FilterDep == PlanOnly /\ modules # <<>> /\ FilterGraph
ProduceDep == Produce

CreateDep ==
  /\ ResolverOnly
  /\ locators = <<>>
  /\ ~resolver.made
  /\ \E inst_keys \in SUBSET {"B"} : CreateLocator(inst_keys, inst_keys, 0)

MakeDep ==
  /\ ResolverOnly
  /\ \E ops \in DepOpTables, parent \in {NoParent, Len(locators)} :
        MakeResolver(ops, parent)

ResolveDep ==
  /\ resolver.made
  /\ \A k \in LocKeys : resolver.calls[k] < MaxDepCalls
  /\ \E key \in DepKeys : Resolve(key)

NextDep ==
  \/ AddDepBinding
  \/ FilterDep
  \/ Validate
  \/ ChooseRootsSel
  \/ GarbageCollect
  \/ TopologicalOrder
  \/ ProduceDep
  \/ CreateDep
  \/ MakeDep
  \/ ResolveDep

SpecDep == Init /\ [][NextDep]_vars

\* the producer calls of the produce that led to this state, as pairs
\* <<key, dependency>> with no instance for the dependency at the call
ProduceUnmet ==
  IF pc \in {"produced", "produce_failed"}
  THEN produce(bindings, set_bindings, topology, 0).unmet
  ELSE {}

\* C27 as stated: whenever a producer is called, every dependency key of
\* its binding has an instance in the instance table or in the parent
\* chain.
C27_AllDependenciesHeld ==
  /\ ProduceUnmet = {}
  /\ resolver.made => resolver.unmet = {}

\* C27 as amended: whenever a producer is called, every dependency key of
\* its binding has an instance in the instance table or in the parent
\* chain, except the unnamed logger key when resolving it raised: the
\* resolver then passes a logger made on the spot and stores none, which
\* happens only when the parent is no LocatorImpl; Injector.produce has no
\* such exception.
C27_DependenciesFirst ==
  /\ ProduceUnmet = {}
  /\ resolver.made =>
       \A p \in resolver.unmet :
          /\ p[2] = LoggerKey
          /\ LoggerKey \notin DOMAIN resolver.instances
          /\ resolver.parent \in {NoParent, 0}

\* the producer of A was called with a logger made on the spot for its
\* dependency L, and with its dependency B resolved before it
C27_Witness ==
  /\ resolver.made
  /\ resolver.unmet = {<<"A", LoggerKey>>}
  /\ resolver.ops["A"] = <<LoggerKey>>
  /\ "A" \in DOMAIN resolver.instances
  /\ "B" \in DOMAIN resolver.ops /\ resolver.calls["B"] = 1

\* the keys that had a regular binding or a set element before pruning
PreviouslyBound ==
  BoundKeys \cup {k \in Keys : AddedSetElements(k) # <<>>}

\* the keys that have a regular binding or a set element now
Retained ==
  KeysOf(bindings) \cup {k \in Keys : set_bindings[k] # <<>>}

\* the bindings the graph holds now, regular ones and set elements
RetainedBindings ==
  Range(bindings) \cup UNION {Range(set_bindings[k]) : k \in Keys}

\* garbage_collect has pruned the graph
Pruned == collected /\ pc \in {"topo", "planned", "produced", "produce_failed"}

\* C28: after pruning from the roots R the two tables hold exactly the
\* previously bound keys reachable from R along the dependencies of the
\* nodes; every dependency of a retained binding, the set elements
\* included, that was bound before pruning is still bound; and producing
\* the plan never fails for a key that was bound before pruning.
C28_PruneClosed ==
  Pruned =>
    /\ Retained = PreviouslyBound \cap ReachableFromRoots
    /\ \A b \in RetainedBindings : \A d \in Range(b.deps) :
          d \in PreviouslyBound => d \in Retained
    /\ (pc = "produce_failed" /\ err.kind = "NoBindingFound")
          => err.key \notin PreviouslyBound

\* ------------------------------------------ inputs: cyclic operation tables
\* A resolver without parent over operations for any of A, B and the
\* unnamed logger key, each with at most MaxTermDeps distinct dependencies
\* among these keys, cycles and self-dependencies included; any key is
\* resolved any number of times.
MaxTermDeps == 2

TermKeys == {"A", "B", LoggerKey}

TermDeps ==
  {d \in SeqUpTo(TermKeys, MaxTermDeps) :
     \A i, j \in 1..Len(d) : d[i] = d[j] => i = j}

TermOpTables == UNION {[S -> TermDeps] : S \in SUBSET TermKeys}

MakeTerm == \E ops \in TermOpTables : MakeResolver(ops, NoParent)
ResolveTerm == \E key \in TermKeys : Resolve(key)

NextTerm ==
  \/ MakeTerm
  \/ ResolveTerm

SpecTerm == Init /\ [][NextTerm]_vars

\* C29: every top-level resolve call ends, returning or raising, whatever
\* cycles the operations have (each call is one step with an outcome); a
\* call for a key that asks for itself raises; after the call _resolving is
\* empty, the key of a call that raised has no instance stored, and no
\* resolve inside the call raised for a key that had an instance stored.
C29_ResolveTerminates ==
  [][lastOp'.op = "resolve" =>
       LET key == lastOp'.key
       IN /\ resolver'.resolving = {}
          /\ resolver'.leaked = {}
          /\ ~lastOp'.ok => key \notin DOMAIN resolver'.instances
          /\ (/\ key \in DOMAIN resolver.ops
              /\ key \notin DOMAIN resolver.instances
              /\ key \in Range(resolver.ops[key])
              /\ ~should_auto_inject_logger(key)) => ~lastOp'.ok
    ]_vars

\* A and B ask for each other: resolve(A) re-entered A, raised, and left
\* both tables empty
C29_Witness ==
  /\ resolver.made
  /\ resolver.ops = [A |-> <<"B">>, B |-> <<"A">>]
  /\ lastOp.op = "resolve" /\ lastOp.key = "A" /\ ~lastOp.ok
  /\ resolver.resolving = {}
  /\ DOMAIN resolver.instances = {}

\* the binding get_binding(k) returns when the modules are added and no
\* filtering runs, as under the empty Activation
Unfiltered(k) ==
  get_binding(add_all(modules, 1,
                      [bindings |-> <<>>, alternative_bindings |-> <<>>,
                       set_bindings |-> [x \in Keys |-> <<>>]]).bindings, k)

\* k has an untagged alternative and the activation is compatible with none
\* of its tagged alternatives
OnlyDefaultsMatch(k) ==
  /\ \E i \in 1..Len(Alts(k)) : Alts(k)[i].tags = {}
  /\ \A i \in 1..Len(Alts(k)) :
        Alts(k)[i].tags # {} =>
           ~is_compatible_with_tags(activation, Alts(k)[i].tags)

\* C30: for a key with an untagged binding, the binding selected under a
\* non-empty Activation that is compatible with none of the key's tagged
\* alternatives is the binding the key has under the empty Activation,
\* when filtering does not run.
C30_SameDefault ==
  (Filtered /\ activation # {} /\ OnlyDefaultsMatch("A"))
    => Selected("A") = Unfiltered("A")

====
